---- MODULE Spec2Model ----
(***************************************************************************)
(* Model of claude-code-reflector: the Stage-2 verdict parser              *)
(* (analyzer/tier2.ts), the progress ledger (state/manager.ts) and the     *)
(* scan / verify / pipeline / reset commands (index.ts).                   *)
(***************************************************************************)
EXTENDS Integers, Sequences, FiniteSets, TLC

\* ----------------------------------------------------------------- bounds
MaxFlags == 2        \* longest Stage-1 candidate list fed to the verifier
MaxResp == 2         \* longest JSON array in a model response
NumSessions == 2     \* session logs on disk
MaxSig == 2          \* distinct values of a log's modified signature
MaxFindings == 1     \* most candidates Stage 1 returns for one session
MaxClock == 3        \* last value of the wall clock
MaxMarks == 3        \* longest sequence of markSessionProcessed calls
MaxBlock == 2        \* longest block of roles repeated to make a log
MaxLines == 3        \* most lines of a log read line by line
MaxToolId == 2       \* tool_use identifiers in such a log

\* ------------------------------------------------------- verifier: inputs
\* Tier1Flag: the fields parseVerdicts reads (identity and confidence).
Confidences == {"low", "medium", "high"}

Tier1Flags ==
  { [excerpt |-> "e1", confidence |-> "high"],
    [excerpt |-> "e2", confidence |-> "medium"],
    [excerpt |-> "e3", confidence |-> "low"] }

SeqsUpTo(S, n) == UNION { [1..m -> S] : m \in 0..n }

\* An evidence value of a response object: whether it is an array, and its
\* items (each a string or not).
EvItem(isStr, text) == [isString |-> isStr, text |-> text]

NoEvidence == [isArray |-> FALSE, items |-> <<>>]

EvidenceVals ==
  { NoEvidence,
    [isArray |-> TRUE, items |-> <<>>],
    [isArray |-> TRUE, items |-> <<EvItem(TRUE, "q1")>>],
    [isArray |-> TRUE, items |-> <<EvItem(FALSE, "7"), EvItem(TRUE, "q1"), EvItem(TRUE, "q2")>>] }

\* One element of the parsed response array, as a JavaScript value.
\* kind: null | false | zero | emptystring | number | string | true |
\*       array (a nested array) | object
RawElem(kind, verified, evidence, confidence, reasoning) ==
  [kind |-> kind, verified |-> verified, evidence |-> evidence,
   confidence |-> confidence, reasoning |-> reasoning]

Prim(kind) == RawElem(kind, "absent", NoEvidence, "absent", "absent")

\* verified field: the boolean true, the boolean false, absent, the string
\* "true", the number 1.
VerifiedVals == {"true", "false", "absent", "string_true", "one"}

RawElems ==
  { Prim(k) : k \in {"null", "zero", "string", "true", "array"} }
  \cup { RawElem("object", v, [isArray |-> TRUE, items |-> <<EvItem(TRUE, "q1")>>], "bogus", "r1")
         : v \in VerifiedVals }
  \cup { RawElem("object", "true", e, "low", "absent") : e \in EvidenceVals }
  \cup { RawElem("object", "true", NoEvidence, c, "r1") : c \in {"high", "absent"} }

\* A JSON document: an array of elements or a non-array value.
JsonDoc(kind, elems) == [kind |-> kind, elems |-> elems]

NoDoc == JsonDoc("none", <<>>)

JsonDocs ==
  { JsonDoc("array", es) : es \in SeqsUpTo(RawElems, MaxResp) }
  \cup { JsonDoc(k, <<>>) : k \in {"object", "number", "null"} }

\* The response text as a token sequence: whitespace, prose, a ``` fence,
\* the word json, or the text of one JSON document.
Tok(t) == [t |-> t, doc |-> NoDoc]

JsonTok(d) == [t |-> "json", doc |-> d]

ResponseTexts(d) ==
  { <<JsonTok(d)>>,
    <<Tok("ws"), JsonTok(d), Tok("ws")>>,
    <<Tok("fence"), JsonTok(d), Tok("fence")>>,
    <<Tok("prose"), Tok("fence"), Tok("lang"), Tok("ws"), JsonTok(d), Tok("ws"), Tok("fence"), Tok("prose")>>,
    <<Tok("prose"), JsonTok(d)>>,
    <<Tok("fence"), Tok("lang"), JsonTok(d)>>,
    <<Tok("fence"), Tok("prose"), Tok("fence"), JsonTok(d)>>,
    <<>> }

\* ------------------------------------------------- verifier: parseVerdicts
\* String.prototype.trim on a token sequence: whitespace is dropped from
\* both ends.
RECURSIVE TrimLeft(_)
TrimLeft(s) ==
  IF s # <<>> /\ Head(s).t = "ws" THEN TrimLeft(Tail(s)) ELSE s

RECURSIVE TrimRight(_)
TrimRight(s) ==
  IF s # <<>> /\ s[Len(s)].t = "ws" THEN TrimRight(SubSeq(s, 1, Len(s) - 1)) ELSE s

Trim(s) == TrimRight(TrimLeft(s))

FencePositions(s) == { i \in 1..Len(s) : s[i].t = "fence" }

Min(S) == CHOOSE x \in S : \A y \in S : x <= y

\* jsonText.match(/```(?:json)?\s*([\s\S]*?)```/): whether the text holds an
\* opening fence with a later closing fence.
HasFenceMatch(s) == Cardinality(FencePositions(s)) >= 2

\* The capture group of that match: what lies between the first fence and
\* the next one, after an optional "json" word and leading whitespace.
FenceCapture(s) ==
  LET a == Min(FencePositions(s))
      b == Min({ i \in FencePositions(s) : i > a })
      inner == SubSeq(s, a + 1, b - 1)
      afterLang == IF inner # <<>> /\ Head(inner).t = "lang" THEN Tail(inner) ELSE inner
  IN TrimLeft(afterLang)

\* The text handed to JSON.parse.
ExtractJsonText(responseText) ==
  LET jsonText == Trim(responseText)
  IN IF HasFenceMatch(jsonText) THEN Trim(FenceCapture(jsonText)) ELSE jsonText

\* JSON.parse: succeeds iff the text is one JSON document, whitespace
\* around it allowed.
JsonParses(text) == Len(Trim(text)) = 1 /\ Trim(text)[1].t = "json"

JsonParse(text) == Trim(text)[1].doc

IsArray(doc) == doc.kind = "array"

\* JavaScript truthiness and typeof of an array element.
Truthy(raw) == raw.kind \notin {"null", "false", "zero", "emptystring"}

TypeofObject(raw) == raw.kind \in {"null", "array", "object"}

isValidConfidence(val) == val \in {"low", "medium", "high"}

Verdict(flag, verified, reasoning, evidence, confidence) ==
  [originalFinding |-> flag, verified |-> verified, reasoning |-> reasoning,
   evidence |-> evidence, confidence |-> confidence]

FallbackVerdictsAllVerified(flags) ==
  [i \in 1..Len(flags) |->
     Verdict(flags[i], TRUE, "Failed to parse verification response", <<>>, "low")]

fallbackVerdicts(flags) ==
  [i \in 1..Len(flags) |->
     Verdict(flags[i], FALSE, "Failed to parse verification response", <<>>, "low")]

\* v.evidence.filter(e => typeof e === 'string')
RECURSIVE FilterStrings(_)
FilterStrings(items) ==
  IF items = <<>> THEN <<>>
  ELSE IF Head(items).isString
       THEN <<Head(items).text>> \o FilterStrings(Tail(items))
       ELSE FilterStrings(Tail(items))

VerifiedTruthy(raw) == raw.verified \in {"true", "string_true", "one"}

\* v.verified === true
VerifiedField(raw) == raw.verified = "true"

\* The callback of originalFlags.map: the verdict for flag i given parsed[i]
\* (present says whether the array has a position i).
VerdictAt(flag, present, raw) ==
  IF ~present \/ ~Truthy(raw) \/ ~TypeofObject(raw)
  THEN Verdict(flag, FALSE, "No verdict returned by verification model", <<>>, "low")
  ELSE Verdict(flag,
               VerifiedField(raw),
               IF raw.reasoning # "absent" THEN raw.reasoning ELSE "No reasoning provided",
               IF raw.evidence.isArray THEN FilterStrings(raw.evidence.items) ELSE <<>>,
               IF isValidConfidence(raw.confidence) THEN raw.confidence ELSE flag.confidence)

ParseVerdictsMapParsed(responseText, originalFlags) ==
  LET text == ExtractJsonText(responseText)
  IN IF ~JsonParses(text) THEN fallbackVerdicts(originalFlags)
     ELSE LET parsed == JsonParse(text)
          IN IF ~IsArray(parsed) THEN fallbackVerdicts(originalFlags)
             ELSE [i \in 1..Len(parsed.elems) |->
                     VerdictAt(IF i <= Len(originalFlags) THEN originalFlags[i]
                               ELSE [excerpt |-> "e1", confidence |-> "high"],
                               TRUE, parsed.elems[i])]

parseVerdicts(responseText, originalFlags) ==
  LET text == ExtractJsonText(responseText)
  IN IF ~JsonParses(text) THEN fallbackVerdicts(originalFlags)
     ELSE LET parsed == JsonParse(text)
          IN IF ~IsArray(parsed) THEN fallbackVerdicts(originalFlags)
             ELSE [i \in 1..Len(originalFlags) |->
                     VerdictAt(originalFlags[i],
                               i <= Len(parsed.elems),
                               IF i <= Len(parsed.elems) THEN parsed.elems[i] ELSE Prim("null"))]


\* ------------------------------------------------------ ledger: manager.ts
SessionIds == 1..NumSessions

Sigs == 1..MaxSig

\* ProcessedSessionRecord; NoRecord is the absent key of processedSessions.
Record(sessionId, processedAt, modifiedAt, findingsCount) ==
  [sessionId |-> sessionId, processedAt |-> processedAt,
   modifiedAt |-> modifiedAt, findingsCount |-> findingsCount]

NoRecord == Record(0, 0, 0, 0)

\* ReflectorState with lastRunAt null (0) and no records.
DEFAULT_STATE ==
  [lastRunAt |-> 0, processedSessions |-> [s \in SessionIds |-> NoRecord]]

IsProcessedAnyRecord(st, sessionId, modifiedAt) ==
  st.processedSessions[sessionId] # NoRecord

isSessionProcessed(st, sessionId, modifiedAt) ==
  LET record == st.processedSessions[sessionId]
  IN IF record = NoRecord THEN FALSE ELSE record.modifiedAt = modifiedAt

\* A marking that starts from the empty ledger instead of the in-memory one.
MarkOnFreshState(st, sessionId, modifiedAt, findingsCount, now) ==
  [lastRunAt |-> now,
   processedSessions |->
     [DEFAULT_STATE.processedSessions EXCEPT
        ![sessionId] = Record(sessionId, now, modifiedAt, findingsCount)]]

\* markSessionProcessed at wall-clock time now.
markSessionProcessed(st, sessionId, modifiedAt, findingsCount, now) ==
  [lastRunAt |-> now,
   processedSessions |->
     [st.processedSessions EXCEPT
        ![sessionId] = Record(sessionId, now, modifiedAt, findingsCount)]]

\* ---------------------------------------------------------------- state
\* ------------------------------------------- condenser: session-parser.ts
MAX_ASSISTANT_CHARS == 2000

MAX_TOTAL_CHARS == 500000

FULL_MAX_TOTAL_CHARS == 800000

FULL_WINDOW_SIZE == 50

\* const windowSize = full ? FULL_WINDOW_SIZE : 20
BOUNDED_WINDOW_SIZE == 20

Roles == {"user", "assistant"}

\* A text is known by the message it comes from (src), the number of its
\* characters carried over (len), whether "..." was appended after a cut
\* (cut), and the characters of the tool-context lines joined after it (tool).
Text(src, len, cut, tool) == [src |-> src, len |-> len, cut |-> cut, tool |-> tool]

\* text.length
TextLength(x) ==
  x.len + (IF x.cut THEN 3 ELSE 0) + (IF x.tool > 0 THEN 1 + x.tool ELSE 0)

\* truncate: text.slice(0, maxChars) + '...' when the text is longer.
truncate(x, maxChars) ==
  IF x.len <= maxChars THEN x ELSE Text(x.src, maxChars, TRUE, x.tool)

ExtractTextTruncatesAll(content, role, isFull) == truncate(content, MAX_ASSISTANT_CHARS)

\* extractText: only assistant text in bounded mode is truncated.
extractText(content, role, isFull) ==
  IF role = "assistant" /\ ~isFull THEN truncate(content, MAX_ASSISTANT_CHARS) ELSE content

\* A log entry that passed the filters of parseSession: its role, the joined
\* text of its text blocks, and the length of its tool-context lines.
RawMessage(role, src, len, tool) == [role |-> role, content |-> Text(src, len, FALSE, tool)]

\* parseSession, the loop body: messages.push({ role, text: combined })
\* where combined is the extracted text followed by the tool-context lines.
ParsedMessage(raw, isFull) ==
  [role |-> raw.role,
   text |-> [extractText([raw.content EXCEPT !.tool = 0], raw.role, isFull)
               EXCEPT !.tool = raw.content.tool]]

ParseMessages(raws, isFull) == [i \in 1..Len(raws) |-> ParsedMessage(raws[i], isFull)]

\* `${label}: ${msg.text}`, and the marker spliced in by the windowing.
Part(msg) == [label |-> IF msg.role = "user" THEN "User" ELSE "Assistant", text |-> msg.text]

Marker == [label |-> "marker", text |-> Text(0, 44, FALSE, 0)]

PartLength(part) ==
  IF part.label = "marker" THEN TextLength(part.text)
  ELSE (IF part.label = "User" THEN 4 ELSE 9) + 2 + TextLength(part.text)

\* parts.join('\n').length, the parts summed by halves.
RECURSIVE SumPartLengths(_, _, _)
SumPartLengths(parts, lo, hi) ==
  IF lo > hi THEN 0
  ELSE IF lo = hi THEN PartLength(parts[lo])
  ELSE LET mid == (lo + hi) \div 2
       IN SumPartLengths(parts, lo, mid) + SumPartLengths(parts, mid + 1, hi)

JoinedLength(parts) ==
  IF Len(parts) = 0 THEN 0 ELSE SumPartLengths(parts, 1, Len(parts)) + (Len(parts) - 1)

\* The elements of an index set between lo and hi, in increasing order.
RECURSIVE SortedBetween(_, _, _)
SortedBetween(S, lo, hi) ==
  IF lo > hi THEN <<>>
  ELSE IF lo = hi THEN (IF lo \in S THEN <<lo>> ELSE <<>>)
  ELSE LET mid == (lo + hi) \div 2
       IN SortedBetween(S, lo, mid) \o SortedBetween(S, mid + 1, hi)

SortedIndices(S, n) == SortedBetween(S, 1, n)

\* messages.map((m, i) => m.role === 'user' ? i : -1).filter(i => i !== -1)
UserIndices(messages) ==
  SortedIndices({ i \in 1..Len(messages) : messages[i].role = "user" }, Len(messages))

\* userIndices.slice(0, windowSize) and userIndices.slice(-windowSize)
FirstN(userIndices, windowSize) ==
  SubSeq(userIndices, 1, IF windowSize < Len(userIndices) THEN windowSize ELSE Len(userIndices))

LastN(userIndices, windowSize) ==
  IF windowSize = 0 \/ windowSize >= Len(userIndices) THEN userIndices
  ELSE SubSeq(userIndices, Len(userIndices) - windowSize + 1, Len(userIndices))

KeepFirstOnly(messages, firstN, lastN) ==
  LET kept == { firstN[k] : k \in 1..Len(firstN) }
  IN kept \cup { i - 1 : i \in { j \in kept : j > 1 /\ messages[j - 1].role = "assistant" } }

\* keepIndices: the first and last N user positions and, for each, the
\* position before it when that holds an assistant message.
KeepIndices(messages, firstN, lastN) ==
  LET kept == { firstN[k] : k \in 1..Len(firstN) } \cup { lastN[k] : k \in 1..Len(lastN) }
  IN kept \cup { i - 1 : i \in { j \in kept : j > 1 /\ messages[j - 1].role = "assistant" } }

\* parts.findIndex(...): the first kept position at or after lastN[0],
\* counted from 0; -1 when there is none.
InsertPos(sortedKeep, firstLastNIdx) ==
  LET hits == { i \in 1..Len(sortedKeep) : sortedKeep[i] >= firstLastNIdx }
  IN IF hits = {} THEN -1 ELSE (CHOOSE i \in hits : \A j \in hits : i <= j) - 1

\* parts.splice(insertPos, 0, marker) when insertPos > 0
Splice(parts, insertPos) ==
  IF insertPos > 0
  THEN SubSeq(parts, 1, insertPos) \o <<Marker>> \o SubSeq(parts, insertPos + 1, Len(parts))
  ELSE parts

\* buildConversationText; the text is kept as the list of the joined parts.
buildConversationText(messages, isFull) ==
  LET parts == [i \in 1..Len(messages) |-> Part(messages[i])]
      maxChars == IF isFull THEN FULL_MAX_TOTAL_CHARS ELSE MAX_TOTAL_CHARS
      windowSize == IF isFull THEN FULL_WINDOW_SIZE ELSE BOUNDED_WINDOW_SIZE
      userIndices == UserIndices(messages)
  IN IF JoinedLength(parts) > maxChars /\ Len(userIndices) > windowSize * 2
     THEN LET firstN == FirstN(userIndices, windowSize)
              lastN == LastN(userIndices, windowSize)
              sortedKeep == SortedIndices(KeepIndices(messages, firstN, lastN), Len(messages))
              keptParts == [k \in 1..Len(sortedKeep) |-> Part(messages[sortedKeep[k]])]
          IN Splice(keptParts, InsertPos(sortedKeep, lastN[1]))
     ELSE parts


\* ---------------------------------------------- Stage 1: analyzeTier1
FlagTypes == {"missing-rule", "skill-unused", "skill-correction"}

\* One element of the parsed Stage-1 array as a JavaScript value; a field
\* holds a string, or "absent" (undefined), or "number" (a non-string).
FlagElem(kind, type, excerpt, whatHappened, recommendation, confidence) ==
  [kind |-> kind, type |-> type, excerpt |-> excerpt, whatHappened |-> whatHappened,
   recommendation |-> recommendation, confidence |-> confidence]

FlagPrim(kind) == FlagElem(kind, "absent", "absent", "absent", "absent", "absent")

FlagElems ==
  { FlagPrim(k) : k \in {"null", "string", "array"} }
  \cup { FlagElem("object", "missing-rule", "e1", "w1", "r1", "high"),
         FlagElem("object", "skill-unused", "e2", "w2", "r2", "low"),
         FlagElem("object", "other-type", "e3", "w3", "r3", "medium"),
         FlagElem("object", "skill-correction", "e4", "w4", "r4", "certain"),
         FlagElem("object", "missing-rule", "absent", "w5", "r5", "high"),
         FlagElem("object", "missing-rule", "e6", "number", "r6", "high"),
         FlagElem("object", "missing-rule", "e7", "w7", "absent", "high"),
         FlagElem("object", "number", "e8", "w8", "r8", "number") }

FlagDocs ==
  { JsonDoc("array", es) : es \in SeqsUpTo(FlagElems, MaxResp) }
  \cup { JsonDoc(k, <<>>) : k \in {"object", "number", "null"} }

Tier1ResponseTexts ==
  { <<JsonTok(d)>> : d \in FlagDocs }
  \cup UNION { ResponseTexts(d) : d \in { e \in FlagDocs : Len(e.elems) <= 1 } }

TypeofString(val) == val \notin {"absent", "number"}

IsValidFlagAnyObject(obj) == obj.kind = "object"

\* isValidFlag
isValidFlag(obj) ==
  IF obj.kind \notin {"object", "array"} THEN FALSE
  ELSE /\ TypeofString(obj.type)
       /\ obj.type \in FlagTypes
       /\ TypeofString(obj.excerpt)
       /\ TypeofString(obj.whatHappened)
       /\ TypeofString(obj.recommendation)
       /\ TypeofString(obj.confidence)
       /\ obj.confidence \in {"low", "medium", "high"}

\* parsed.filter(isValidFlag)
RECURSIVE FilterFlags(_)
FilterFlags(es) ==
  IF es = <<>> THEN <<>>
  ELSE IF isValidFlag(Head(es)) THEN <<Head(es)>> \o FilterFlags(Tail(es))
       ELSE FilterFlags(Tail(es))

\* analyzeTier1, from the response to the flags: the try block and its
\* catch, which turns a JSON.parse error into no findings.
ParseFlags(text) ==
  LET jsonText == ExtractJsonText(text)
  IN IF ~JsonParses(jsonText) THEN <<>>
     ELSE IF IsArray(JsonParse(jsonText)) THEN FilterFlags(JsonParse(jsonText).elems)
          ELSE <<>>


\* ------------------------------------- model client: anthropic-client.ts
DELAY_MS == 500

MAX_RETRIES == 3

INITIAL_BACKOFF_MS == 2000

\* CallModelOptions as the callers pass them: analyzeTier1 the defaults,
\* verifySession the model chosen with --model and maxTokens 8192.
CallModelOptions(model, maxTokens) == [model |-> model, maxTokens |-> maxTokens]

CallerOptions ==
  { CallModelOptions("haiku", 4096), CallModelOptions("haiku", 8192),
    CallModelOptions("sonnet", 8192) }

\* How one messages.create call ends: a response with or without a text
\* block, or an error carrying an HTTP status (0: an error with no status).
Response(hasText) == [kind |-> "response", hasText |-> hasText, status |-> 0]

ApiError(status) == [kind |-> "error", hasText |-> FALSE, status |-> status]

\* new Error('No text response from model')
NoTextError == ApiError(0)

NoError == [kind |-> "none", hasText |-> FALSE, status |-> 0]

\* The statuses an attempt is made to fail with: rate limit, overload,
\* server error, bad request, and an error with no status.
ErrorStatuses == {429, 529, 500, 400, 0}

IsTransientAnyStatus(err) == err.status # 0

\* status === 429 || status === 529
IsTransient(err) == err.status = 429 \/ err.status = 529

BackoffConstant(attempt) == INITIAL_BACKOFF_MS

\* INITIAL_BACKOFF_MS * Math.pow(2, attempt)
Backoff(attempt) == INITIAL_BACKOFF_MS * 2^attempt

\* ------------------------------------------ reader: parseSession's loop
TOOL_ERROR_CHARS == 800

ToolIds == 1..MaxToolId

\* A tool-result text as a token sequence: "reject" is the phrase
\* 'The user doesn't want', "said" the phrase 'the user said:\n', "exit" the
\* phrase 'Exit code ', "zero" the character 0, "digit" another digit, "ws"
\* whitespace, "prose" a word, "run" a run of TOOL_ERROR_CHARS characters.
TokLength(tok) ==
  CASE tok.t = "reject" -> 21
    [] tok.t = "said" -> 15
    [] tok.t = "exit" -> 10
    [] tok.t = "run" -> TOOL_ERROR_CHARS
    [] tok.t = "prose" -> 4
    [] OTHER -> 1

RECURSIVE TokensLength(_)
TokensLength(text) ==
  IF text = <<>> THEN 0 ELSE TokLength(Head(text)) + TokensLength(Tail(text))

ResultTexts ==
  { <<>>,
    <<Tok("prose")>>,
    <<Tok("run")>>,
    <<Tok("run"), Tok("prose")>>,
    <<Tok("exit"), Tok("zero")>>,
    <<Tok("prose"), Tok("exit"), Tok("digit")>>,
    <<Tok("exit")>>,
    <<Tok("reject"), Tok("prose")>>,
    <<Tok("reject"), Tok("said"), Tok("ws"), Tok("prose"), Tok("ws")>>,
    <<Tok("reject"), Tok("said"), Tok("ws")>>,
    <<Tok("reject"), Tok("exit"), Tok("digit"), Tok("said"), Tok("prose"), Tok("said")>>,
    <<Tok("prose"), Tok("reject"), Tok("said"), Tok("prose")>> }

\* Content blocks: tool_use, tool_result, and a null in the array.
ToolUse(id, name) ==
  [type |-> "tool_use", id |-> id, name |-> name, content |-> <<>>, is_error |-> FALSE]

ToolResult(tool_use_id, content, is_error) ==
  [type |-> "tool_result", id |-> tool_use_id, name |-> "", content |-> content,
   is_error |-> is_error]

NullBlock == [type |-> "null", id |-> 0, name |-> "", content |-> <<>>, is_error |-> FALSE]

\* message.content: a string of textLen characters, or an array whose text
\* blocks hold textLen characters in all, followed by its other blocks.
Content(isArray, textLen, blocks) ==
  [isArray |-> isArray, textLen |-> textLen, blocks |-> blocks]

\* One line of the log: blank, not JSON, or a RawJSONLEntry.
LogLine(kind, isSidechain, type, role, content) ==
  [kind |-> kind, isSidechain |-> isSidechain, type |-> type, role |-> role,
   content |-> content]

BlankLine == LogLine("blank", FALSE, "", "", Content(FALSE, 0, <<>>))

CorruptLine == LogLine("corrupt", FALSE, "", "", Content(FALSE, 0, <<>>))

LogEntry(isSidechain, type, role, content) ==
  LogLine("entry", isSidechain, type, role, content)

\* extractResultContent of a string content: the string.
extractResultContent(content) == content

\* resultText.startsWith('The user doesn\'t want')
isUserRejection(resultText) ==
  resultText # <<>> /\ resultText[1].t = "reject"

IsToolErrorFlagOnly(block, resultText) == block.is_error

\* block.is_error === true, or /Exit code [^0]/ matches.
isToolError(block, resultText) ==
  \/ block.is_error
  \/ \E i \in 1..(Len(resultText) - 1) :
       resultText[i].t = "exit" /\ resultText[i + 1].t # "zero"

\* What follows the first 'the user said:\n', trimmed; '' without it.
extractRejectionFeedback(resultText) ==
  LET found == { i \in 1..Len(resultText) : resultText[i].t = "said" }
  IN IF found = {} THEN <<>>
     ELSE Trim(SubSeq(resultText, Min(found) + 1, Len(resultText)))

\* The lines of the tool context: '[bash] ...', '[rejected] ...' (bare when
\* text is empty), '[error] ' + truncate(resultText, TOOL_ERROR_CHARS).
ToolLine(name) == [tag |-> name, text |-> <<>>, chars |-> 0, cut |-> FALSE]

RejectedLine(feedback) ==
  [tag |-> "[rejected]", text |-> feedback, chars |-> TokensLength(feedback), cut |-> FALSE]

ErrorLine(resultText) ==
  LET t == truncate(Text(0, TokensLength(resultText), FALSE, 0), TOOL_ERROR_CHARS)
  IN [tag |-> "[error]", text |-> resultText, chars |-> t.len, cut |-> t.cut]

\* extractKeyParam: null for Skill, the key parameter otherwise.
extractKeyParam(toolName) == IF toolName = "Skill" THEN "null" ELSE "param"

ResultLinesErrorFirst(block, role, toolUseNames) ==
  IF role = "user" /\ block.type = "tool_result" /\ block.id \in toolUseNames
  THEN LET resultText == extractResultContent(block.content)
       IN IF resultText = <<>> THEN <<>>
          ELSE IF isToolError(block, resultText) THEN <<ErrorLine(resultText)>>
          ELSE IF isUserRejection(resultText)
               THEN <<RejectedLine(extractRejectionFeedback(resultText))>>
          ELSE <<>>
  ELSE <<>>

\* extractToolContext, the lines of one block of a user message.
ResultLines(block, role, toolUseNames) ==
  IF role = "user" /\ block.type = "tool_result" /\ block.id \in toolUseNames
  THEN LET resultText == extractResultContent(block.content)
       IN IF resultText = <<>> THEN <<>>
          ELSE IF isUserRejection(resultText)
               THEN <<RejectedLine(extractRejectionFeedback(resultText))>>
          ELSE IF isToolError(block, resultText) THEN <<ErrorLine(resultText)>>
          ELSE <<>>
  ELSE <<>>

\* extractToolContext, the lines of one block.
BlockLines(block, role, toolUseNames) ==
  IF role = "assistant" /\ block.type = "tool_use" /\ block.name # ""
  THEN IF extractKeyParam(block.name) = "null" THEN <<>> ELSE <<ToolLine(block.name)>>
  ELSE ResultLines(block, role, toolUseNames)

RECURSIVE extractToolContext(_, _, _)
extractToolContext(blocks, role, toolUseNames) ==
  IF blocks = <<>> THEN <<>>
  ELSE BlockLines(Head(blocks), role, toolUseNames)
         \o extractToolContext(Tail(blocks), role, toolUseNames)

\* Whether the loops over the blocks reach a null block (block.type throws).
Throws(content) == \E k \in 1..Len(content.blocks) : content.blocks[k].type = "null"

\* The tool_use ids set in toolUseNames before the loop ends or throws.
RECURSIVE TrackedIds(_)
TrackedIds(blocks) ==
  IF blocks = <<>> \/ Head(blocks).type = "null" THEN {}
  ELSE (IF Head(blocks).type = "tool_use" /\ Head(blocks).name # ""
        THEN {Head(blocks).id} ELSE {})
       \cup TrackedIds(Tail(blocks))

FilteredOutOnlyUnparsed(line) == line.kind # "entry"

\* The continue statements before the tracking: blank line, JSON.parse
\* throws, sidechain, summary or progress, no role or content, other role.
FilteredOut(line) ==
  \/ line.kind # "entry"
  \/ line.isSidechain
  \/ line.type \in {"summary", "progress"}
  \/ line.role = ""
  \/ ~line.content.isArray /\ line.content.textLen = 0
  \/ line.role \notin {"user", "assistant"}

\* A tracking that also reads the entries the loop skips.
TrackSkippedToo(line, toolUseNames) ==
  IF line.kind = "entry" /\ line.content.isArray
  THEN toolUseNames \cup TrackedIds(line.content.blocks)
  ELSE toolUseNames

\* toolUseNames after the line.
TrackLine(line, toolUseNames) ==
  IF ~FilteredOut(line) /\ line.role = "assistant" /\ line.content.isArray
  THEN toolUseNames \cup TrackedIds(line.content.blocks)
  ELSE toolUseNames

ReadMessage(role, src, textLen, lines) ==
  [role |-> role, src |-> src, textLen |-> textLen, lines |-> lines]

\* The messages pushed for the line at position src: one or none.
PushLine(line, src, toolUseNames) ==
  IF FilteredOut(line) \/ Throws(line.content) THEN <<>>
  ELSE LET text == extractText(Text(src, line.content.textLen, FALSE, 0), line.role, FALSE)
           toolContext ==
             IF line.content.isArray
             THEN extractToolContext(line.content.blocks, line.role, toolUseNames)
             ELSE <<>>
       IN IF text.len = 0 /\ toolContext = <<>> THEN <<>>
          ELSE <<ReadMessage(line.role, src, text.len, toolContext)>>


VARIABLES
  flags,          \* verifySession: the Stage-1 candidates passed in
  responseText,   \* verifySession: the text of the model response
  verdicts,       \* verifySession: the verdict list returned
  vpc,            \* verifySession: "ready" | "returned" | "threw"
  state,          \* the in-memory ReflectorState of the running command
  clock,          \* the wall clock (new Date())
  marks,          \* the markSessionProcessed calls made so far, in order
  modified,       \* per session log: its current modified signature
  fs,             \* the files state.json and state.json.tmp
  latestReport,   \* reports/latest.json
  reportHistory,  \* the sessions of the reports/<timestamp>/report.json files
  verifiedReport, \* reports/latest-verified.json
  cmd,            \* the running command: "idle" | "scan" | "pipeline" | "verify"
  pc,             \* position of the running command
  opts,           \* its options
  entries,        \* scan/pipeline: the discovered SessionIndexEntry list
  toProcess,      \* scan/pipeline: the entries selected for Stage 1
  idx,            \* loop index of the Stage-1 or Stage-2 loop (from 1)
  results,        \* Tier1Result list of this run
  sessionsWithFindings, \* the Tier1Results selected for Stage 2
  verifyResults,  \* Tier2Result list of this run
  ledgerAtStart,  \* the persisted ledger when the command read (or skipped) it
  outcome,        \* per session: how the Stage-1 loop of this run resolved it
  voutcome,       \* per session: how the Stage-2 loop of this run resolved it
  calls,          \* sessions for which this run made a Stage-1 model call
  term,           \* how the command ended, "" while it runs
  inflight,       \* sessions whose per-session work unit has started and not ended
  saving,         \* saveState executions started and not ended
  prev,           \* what is remembered of the last command that ended
  rawMessages,    \* parseSession: the log's message entries
  full,           \* parseSession: options.full
  conversationText, \* parseSession: the parts joined into conversationText
  cpc,            \* parseSession: "off" | "ready" | "returned" | "threw"
  t1Response,     \* analyzeTier1: the text of the model response
  t1Flags,        \* analyzeTier1: the flags of the result returned
  t1pc,           \* analyzeTier1: "off" | "calling" | "parsing" | "returned" | "threw"
  callOptions,    \* callModel: options (model and maxTokens)
  attempt,        \* callModel: the loop variable
  lastError,      \* callModel: the last error caught
  attempts,       \* callModel: how each messages.create call so far ended
  sleeps,         \* callModel: the sleep(ms) calls so far, in order
  thrown,         \* callModel: the error it rejected with
  logLines,       \* parseSession: the lines of the log file
  lineNo,         \* parseSession: the lines read so far
  readMessages,   \* parseSession: messages
  toolUseNames,   \* parseSession: the tool_use ids of toolUseNames
  rpc,            \* parseSession's loop: "off" | "reading" | "returned" | "threw"
  cmpc            \* callModel: "off" | "delay" | "create" | "backoff" | "returned" | "threw"

verifyVars == <<flags, responseText, verdicts, vpc>>

condVars == <<rawMessages, full, conversationText, cpc>>

tier1Vars == <<t1Response, t1Flags, t1pc>>

callVars == <<callOptions, attempt, lastError, attempts, sleeps, thrown, cmpc>>

readerVars == <<logLines, lineNo, readMessages, toolUseNames, rpc>>

pureVars == <<condVars, tier1Vars, callVars, readerVars>>

ledgerVars == <<state, clock, marks>>

diskVars == <<modified, fs, latestReport, verifiedReport, reportHistory>>

runFrame == <<cmd, pc, opts, entries, toProcess, idx, results, sessionsWithFindings,
              verifyResults, ledgerAtStart, outcome, voutcome, calls, term, inflight,
              saving>>

runVars == <<runFrame, prev>>

vars == <<verifyVars, pureVars, ledgerVars, diskVars, runVars>>


\* ------------------------------------------------------------------ files
STATE_FILE == "state.json"

TempFileIsStateFile == STATE_FILE

\* saveState: const tempFile = `${STATE_FILE}.tmp`
tempFile == "state.json.tmp"

FilePaths == {STATE_FILE, "state.json.tmp"}

\* A file: absent, or holding the JSON text of a state, whole or only a
\* prefix of it (a write that did not finish).
File(present, whole, data) == [present |-> present, whole |-> whole, data |-> data]

NoFile == File(FALSE, FALSE, DEFAULT_STATE)

\* What a reader of the ledger path sees as the persisted ledger.
Persisted(f) == IF f[STATE_FILE].present THEN f[STATE_FILE].data ELSE DEFAULT_STATE

\* A report file: absent, or the result list it holds.
Report(present, rs) == [present |-> present, results |-> rs]

NoReport == Report(FALSE, <<>>)

Tier1Result(sessionId, n) == [sessionId |-> sessionId, flags |-> n]

Tier2Result(sessionId, n) == [sessionId |-> sessionId, verdicts |-> n]

Entry(sessionId, sig) == [sessionId |-> sessionId, modified |-> sig]

NoOpts == [all |-> FALSE, dryRun |-> FALSE, limit |-> 0]

Limits == {0, 1}

DiskInit ==
  /\ modified = [s \in SessionIds |-> 1]
  /\ fs = [p \in FilePaths |-> NoFile]
  /\ latestReport = NoReport
  /\ reportHistory = {}
  /\ verifiedReport = NoReport

\* What is remembered of the last command: nothing (NoRun), or that it was
\* a scan that handled every session it selected, the entries it had
\* discovered, and whether it found a conversation empty.
RunMemory(handled, anyEmpty, es) == [handled |-> handled, anyEmpty |-> anyEmpty, entries |-> es]

NoRun == RunMemory(FALSE, FALSE, <<>>)

RunIdle ==
  /\ cmd = "idle"
  /\ pc = "idle"
  /\ opts = NoOpts
  /\ entries = <<>>
  /\ toProcess = <<>>
  /\ idx = 0
  /\ results = <<>>
  /\ sessionsWithFindings = <<>>
  /\ verifyResults = <<>>
  /\ ledgerAtStart = DEFAULT_STATE
  /\ outcome = [s \in SessionIds |-> "none"]
  /\ voutcome = [s \in SessionIds |-> "none"]
  /\ calls = {}
  /\ term = ""
  /\ inflight = {}
  /\ saving = 0
  /\ prev = NoRun

\* ------------------------------------------------ verifier: verifySession
\* Every document as the bare response, and the documents of at most one
\* element inside each kind of wrapping.
AllResponseTexts ==
  { <<JsonTok(d)>> : d \in JsonDocs }
  \cup UNION { ResponseTexts(d) : d \in { e \in JsonDocs : Len(e.elems) <= 1 } }

VerifyIdle ==
  /\ flags = <<>>
  /\ responseText = <<>>
  /\ verdicts = <<>>
  /\ vpc = "off"

CondenseIdle ==
  /\ rawMessages = <<>>
  /\ full = FALSE
  /\ conversationText = <<>>
  /\ cpc = "off"

Tier1Idle ==
  /\ t1Response = <<>>
  /\ t1Flags = <<>>
  /\ t1pc = "off"

CallModelIdle ==
  /\ callOptions = CallModelOptions("haiku", 4096)
  /\ attempt = 0
  /\ lastError = NoError
  /\ attempts = <<>>
  /\ sleeps = <<>>
  /\ thrown = NoError
  /\ cmpc = "off"

ReaderIdle ==
  /\ logLines = <<>>
  /\ lineNo = 0
  /\ readMessages = <<>>
  /\ toolUseNames = {}
  /\ rpc = "off"

PureIdle == CondenseIdle /\ Tier1Idle /\ CallModelIdle /\ ReaderIdle

LedgerIdle ==
  /\ state = DEFAULT_STATE
  /\ clock = 1
  /\ marks = <<>>

InitVerify ==
  /\ flags \in SeqsUpTo(Tier1Flags, MaxFlags)
  /\ responseText \in AllResponseTexts
  /\ verdicts = <<>>
  /\ vpc = "ready"
  /\ LedgerIdle
  /\ DiskInit
  /\ RunIdle
  /\ PureIdle

\* callModel resolved: the response text is parsed into verdicts.
VerifySessionReturns ==
  /\ vpc = "ready"
  /\ verdicts' = parseVerdicts(responseText, flags)
  /\ vpc' = "returned"
  /\ UNCHANGED <<flags, responseText, pureVars, ledgerVars, diskVars, runVars>>

\* parseSession or callModel rejected: verifySession throws.
VerifySessionThrows ==
  /\ vpc = "ready"
  /\ vpc' = "threw"
  /\ UNCHANGED <<flags, responseText, verdicts, pureVars, ledgerVars, diskVars, runVars>>

NextVerify ==
  \/ VerifySessionReturns
  \/ VerifySessionThrows

SpecVerify == InitVerify /\ [][NextVerify]_vars

\* What JSON.parse makes of the response, for stating the claims.
ResponseIsArray ==
  /\ JsonParses(ExtractJsonText(responseText))
  /\ IsArray(JsonParse(ExtractJsonText(responseText)))

ResponseElems == JsonParse(ExtractJsonText(responseText)).elems

IsRejectDefault(v) == v.verified = FALSE /\ v.evidence = <<>> /\ v.confidence = "low"

\* C1: whatever the response text is, verifySession returns exactly one
\* verdict per candidate, and verdict i wraps candidate i.
C1_PositionalCorrespondence ==
  vpc = "returned" =>
    /\ Len(verdicts) = Len(flags)
    /\ \A i \in 1..Len(flags) : verdicts[i].originalFinding = flags[i]

C1_Witness ==
  /\ vpc = "returned"
  /\ Len(flags) = 2
  /\ flags[1] # flags[2]
  /\ ResponseIsArray
  /\ Len(ResponseElems) = 1
  /\ verdicts[1].verified

\* C2: when the response is not a JSON array (invalid JSON or a non-array
\* value), every verdict is the reject default.
C2_FailClosed ==
  (vpc = "returned" /\ ~ResponseIsArray) =>
    \A i \in 1..Len(verdicts) : IsRejectDefault(verdicts[i])

C2_Witness ==
  /\ vpc = "returned"
  /\ Len(flags) = 2
  /\ JsonParses(ExtractJsonText(responseText))
  /\ ~ResponseIsArray
  /\ \A i \in 1..Len(verdicts) : IsRejectDefault(verdicts[i])

InitLedger ==
  /\ VerifyIdle
  /\ LedgerIdle
  /\ DiskInit
  /\ RunIdle
  /\ PureIdle

\* One markSessionProcessed call on the in-memory state.
MarkSessionProcessed(sessionId, modifiedAt, findingsCount) ==
  /\ Len(marks) < MaxMarks
  /\ state' = markSessionProcessed(state, sessionId, modifiedAt, findingsCount, clock)
  /\ marks' = Append(marks, <<sessionId, modifiedAt>>)
  /\ UNCHANGED <<clock, verifyVars, pureVars, diskVars, runVars>>

\* Time passes between calls.
Tick ==
  /\ clock < MaxClock
  /\ clock' = clock + 1
  /\ UNCHANGED <<state, marks, verifyVars, pureVars, diskVars, runVars>>

NextLedger ==
  \/ \E id \in SessionIds, sig \in Sigs, n \in {0, MaxFindings} :
       MarkSessionProcessed(id, sig, n)
  \/ Tick

SpecLedger == InitLedger /\ [][NextLedger]_vars

\* The signature of the most recent mark for a session, 0 when never marked.
RECURSIVE LastMarkSig(_, _)
LastMarkSig(ms, id) ==
  IF ms = <<>> THEN 0
  ELSE IF ms[Len(ms)][1] = id THEN ms[Len(ms)][2]
       ELSE LastMarkSig(SubSeq(ms, 1, Len(ms) - 1), id)

\* C4: isSessionProcessed(id, s) is true exactly when the most recent mark
\* for id used signature s: true for the marked signature, false for every
\* other one and for a session never marked.
C4_LedgerInvariant ==
  \A id \in SessionIds : \A s \in Sigs :
    isSessionProcessed(state, id, s) <=> (LastMarkSig(marks, id) = s)

C4_Witness ==
  /\ Len(marks) = 3
  /\ marks[1] = <<1, 1>>
  /\ marks[2] = <<2, 1>>
  /\ marks[3] = <<1, 2>>
  /\ isSessionProcessed(state, 1, 2)
  /\ ~isSessionProcessed(state, 1, 1)
  /\ isSessionProcessed(state, 2, 1)

\* ----------------------------------------------- orchestrator: index.ts
RECURSIVE SetToSeq(_)
SetToSeq(S) == IF S = {} THEN <<>> ELSE <<Min(S)>> \o SetToSeq(S \ {Min(S)})

\* readAllSessionEntries: the entries of the sessions in S (those the
\* filters let through), each with the log's modified signature.
Discover(S) ==
  LET ids == SetToSeq(S)
  IN [k \in 1..Len(ids) |-> Entry(ids[k], modified[ids[k]])]

SelectAll(es, st) == es

\* entries.filter(e => !isSessionProcessed(state, e.sessionId, e.modified))
RECURSIVE SelectToProcess(_, _)
SelectToProcess(es, st) ==
  IF es = <<>> THEN <<>>
  ELSE IF ~isSessionProcessed(st, Head(es).sessionId, Head(es).modified)
       THEN <<Head(es)>> \o SelectToProcess(Tail(es), st)
       ELSE SelectToProcess(Tail(es), st)

\* if (limit) toProcess = toProcess.slice(0, limit)
ApplyLimit(es, limit) ==
  IF limit # 0 THEN SubSeq(es, 1, IF limit < Len(es) THEN limit ELSE Len(es)) ELSE es

\* A selection that keeps the sessions without candidates too.
WithFindingsOrNot(rs) == rs

\* report.results.filter(r => r.flags.length > 0)
RECURSIVE WithFindings(_)
WithFindings(rs) ==
  IF rs = <<>> THEN <<>>
  ELSE IF Head(rs).flags > 0 THEN <<Head(rs)>> \o WithFindings(Tail(rs))
       ELSE WithFindings(Tail(rs))

\* A catch block that goes back to the session that failed.
RetryAfterFailure(k, n) == k

AbortLoopAfterFailure(k, n) == n + 1

\* The catch block of a loop body: the for loop goes on with the next index.
IndexAfterFailure(k, n) == k + 1

SkipSaveAfterMark(k, n) == IF k + 1 > n THEN "report" ELSE "parse"

\* After markSessionProcessed the loop body awaits saveState.
PcAfterMark(k, n) == "saveWrite"

Init ==
  /\ VerifyIdle
  /\ LedgerIdle
  /\ DiskInit
  /\ RunIdle
  /\ PureIdle

\* The process ends (normally after "done", or abruptly anywhere): what it
\* held in memory is gone, the files stay.
EndProcess ==
  /\ cmd' = "idle"
  /\ pc' = "idle"
  /\ opts' = NoOpts
  /\ entries' = <<>>
  /\ toProcess' = <<>>
  /\ idx' = 0
  /\ results' = <<>>
  /\ sessionsWithFindings' = <<>>
  /\ verifyResults' = <<>>
  /\ ledgerAtStart' = DEFAULT_STATE
  /\ outcome' = [s \in SessionIds |-> "none"]
  /\ voutcome' = [s \in SessionIds |-> "none"]
  /\ calls' = {}
  /\ term' = ""
  /\ inflight' = {}
  /\ saving' = 0
  /\ state' = DEFAULT_STATE
  /\ UNCHANGED <<clock, marks, verifyVars, pureVars, diskVars>>

Exit ==
  /\ pc = "done"
  /\ EndProcess
  /\ UNCHANGED prev

Crash ==
  /\ cmd # "idle"
  /\ pc # "done"
  /\ EndProcess
  /\ prev' = NoRun

\* A session log is appended to between runs: its modified time moves on.
EditLog(s) ==
  /\ cmd = "idle"
  /\ modified[s] < MaxSig
  /\ modified' = [modified EXCEPT ![s] = modified[s] + 1]
  /\ UNCHANGED <<fs, latestReport, reportHistory, verifiedReport, verifyVars, pureVars, ledgerVars, runVars>>

\* reset: fs.unlink(STATE_FILE)
Reset ==
  /\ cmd = "idle"
  /\ fs[STATE_FILE].present
  /\ fs' = [fs EXCEPT ![STATE_FILE] = NoFile]
  /\ prev' = NoRun
  /\ UNCHANGED <<modified, latestReport, reportHistory, verifiedReport, verifyVars, pureVars,
                 ledgerVars, runFrame>>

\* scan: option parsing and readAllSessionEntries, up to the empty check.
StartScan(S, all, dryRun, limit) ==
  /\ cmd = "idle"
  /\ clock < MaxClock
  /\ clock' = clock + 1
  /\ cmd' = "scan"
  /\ opts' = [all |-> all, dryRun |-> dryRun, limit |-> limit]
  /\ entries' = Discover(S)
  /\ IF S = {}
     THEN pc' = "done" /\ term' = "no sessions matched filters"
     ELSE pc' = "load" /\ term' = ""
  /\ UNCHANGED <<toProcess, idx, results, sessionsWithFindings, verifyResults,
                 ledgerAtStart, outcome, voutcome, calls, state, marks,
                 verifyVars, pureVars, diskVars>>
  /\ UNCHANGED <<inflight, saving, prev>>

\* pipeline: the same without the empty check and without --dry-run.
StartPipeline(S, all, limit) ==
  /\ cmd = "idle"
  /\ clock < MaxClock
  /\ clock' = clock + 1
  /\ cmd' = "pipeline"
  /\ opts' = [all |-> all, dryRun |-> FALSE, limit |-> limit]
  /\ entries' = Discover(S)
  /\ pc' = "load"
  /\ UNCHANGED <<term, toProcess, idx, results, sessionsWithFindings, verifyResults,
                 ledgerAtStart, outcome, voutcome, calls, state, marks,
                 verifyVars, pureVars, diskVars>>
  /\ UNCHANGED <<inflight, saving, prev>>

\* A scan that goes into the loop under --dry-run.
LoadStateIgnoresDryRun ==
  /\ pc = "load"
  /\ opts.all \/ ~fs[STATE_FILE].present \/ fs[STATE_FILE].whole
  /\ LET loaded == IF opts.all THEN DEFAULT_STATE ELSE Persisted(fs)
         selected == SelectToProcess(entries, loaded)
     IN /\ state' = loaded
        /\ ledgerAtStart' = Persisted(fs)
        /\ toProcess' = IF selected = <<>> THEN <<>> ELSE ApplyLimit(selected, opts.limit)
        /\ IF selected = <<>>
           THEN pc' = "done" /\ term' = "all matched sessions already processed" /\ idx' = idx
           ELSE pc' = "parse" /\ term' = "" /\ idx' = 1
  /\ UNCHANGED <<cmd, opts, entries, results, sessionsWithFindings, verifyResults,
                 outcome, voutcome, calls, clock, marks, verifyVars, pureVars, diskVars>>
  /\ inflight' = IF pc' = "parse" THEN {toProcess'[1].sessionId} ELSE inflight
  /\ UNCHANGED <<saving, prev>>

\* loadState (or the fresh state of --all), the filter, the limit and the
\* dry-run listing.
LoadState ==
  /\ pc = "load"
  /\ opts.all \/ ~fs[STATE_FILE].present \/ fs[STATE_FILE].whole
  /\ LET loaded == IF opts.all THEN DEFAULT_STATE ELSE Persisted(fs)
         selected == SelectToProcess(entries, loaded)
     IN /\ state' = loaded
        /\ ledgerAtStart' = Persisted(fs)
        /\ toProcess' = IF selected = <<>> THEN <<>> ELSE ApplyLimit(selected, opts.limit)
        /\ IF selected = <<>>
           THEN pc' = "done" /\ term' = "all matched sessions already processed" /\ idx' = idx
           ELSE IF opts.dryRun
                THEN pc' = "done" /\ term' = "dry run" /\ idx' = idx
                ELSE pc' = "parse" /\ term' = "" /\ idx' = 1
  /\ UNCHANGED <<cmd, opts, entries, results, sessionsWithFindings, verifyResults,
                 outcome, voutcome, calls, clock, marks, verifyVars, pureVars, diskVars>>
  /\ inflight' = IF pc' = "parse" THEN {toProcess'[1].sessionId} ELSE inflight
  /\ UNCHANGED <<saving, prev>>

\* A loadState that answers a read or parse error with the empty state.
LoadStateSwallows ==
  /\ pc = "load"
  /\ ~opts.all
  /\ fs[STATE_FILE].present
  /\ LET selected == SelectToProcess(entries, DEFAULT_STATE)
     IN /\ state' = DEFAULT_STATE
        /\ ledgerAtStart' = Persisted(fs)
        /\ toProcess' = ApplyLimit(selected, opts.limit)
        /\ IF opts.dryRun
           THEN pc' = "done" /\ term' = "dry run" /\ idx' = idx /\ inflight' = inflight
           ELSE pc' = "parse" /\ term' = "" /\ idx' = 1
                /\ inflight' = {toProcess'[1].sessionId}
  /\ UNCHANGED <<cmd, opts, entries, results, sessionsWithFindings, verifyResults,
                 outcome, voutcome, calls, clock, marks, verifyVars, pureVars, diskVars,
                 saving, prev>>

\* loadState rethrows a read error other than ENOENT and a JSON.parse
\* error: the command ends with an unhandled rejection.
LoadStateThrows ==
  /\ pc = "load"
  /\ ~opts.all
  /\ fs[STATE_FILE].present
  /\ pc' = "done"
  /\ term' = "fatal"
  /\ UNCHANGED <<cmd, opts, entries, toProcess, idx, results, sessionsWithFindings,
                 verifyResults, ledgerAtStart, outcome, voutcome, calls,
                 ledgerVars, verifyVars, pureVars, diskVars>>
  /\ UNCHANGED <<inflight, saving, prev>>

\* What no step of the two loops changes.
loopFrame == <<cmd, opts, entries, toProcess, ledgerAtStart, clock, marks, modified,
               verifyVars, pureVars>>

Stage1GotoWithoutAwait(k) ==
  /\ idx' = k
  /\ pc' = IF k > Len(toProcess) THEN "report" ELSE "parse"
  /\ inflight' = inflight \cup (IF k > Len(toProcess) THEN {} ELSE {toProcess[k].sessionId})

\* The Stage-1 loop moves on to index k (or leaves the loop): the work on
\* the current session has ended, the work on the next one starts.
Stage1Goto(k) ==
  /\ idx' = k
  /\ pc' = IF k > Len(toProcess) THEN "report" ELSE "parse"
  /\ inflight' = (inflight \ {toProcess[idx].sessionId})
                   \cup (IF k > Len(toProcess) THEN {} ELSE {toProcess[k].sessionId})

\* The catch block of the Stage-1 loop: spinner.fail, then the next session.
Stage1Failed ==
  /\ outcome' = [outcome EXCEPT ![toProcess[idx].sessionId] = "failed"]
  /\ Stage1Goto(IndexAfterFailure(idx, Len(toProcess)))

\* parseSession resolves with a non-empty conversation text.
ParseSessionReturns ==
  /\ pc = "parse"
  /\ pc' = "analyze"
  /\ UNCHANGED <<loopFrame, idx, results, sessionsWithFindings, verifyResults, outcome,
                 voutcome, calls, term, state, fs, latestReport, reportHistory, verifiedReport>>
  /\ UNCHANGED <<inflight, saving, prev>>

\* parseSession resolves with an empty conversation text: warn and continue.
ParseSessionEmpty ==
  /\ pc = "parse"
  /\ outcome' = [outcome EXCEPT ![toProcess[idx].sessionId] = "empty"]
  /\ Stage1Goto(idx + 1)
  /\ UNCHANGED <<loopFrame, results, sessionsWithFindings, verifyResults,
                 voutcome, calls, term, state, fs, latestReport, reportHistory, verifiedReport>>
  /\ UNCHANGED <<saving, prev>>

ParseSessionThrows ==
  /\ pc = "parse"
  /\ Stage1Failed
  /\ UNCHANGED <<loopFrame, results, sessionsWithFindings, verifyResults,
                 voutcome, calls, term, state, fs, latestReport, reportHistory, verifiedReport>>
  /\ UNCHANGED <<saving, prev>>

\* analyzeTier1 resolves with n flags: results.push, markSessionProcessed.
AnalyzeTier1Returns(n) ==
  /\ pc = "analyze"
  /\ LET entry == toProcess[idx]
     IN /\ calls' = calls \cup {entry.sessionId}
        /\ results' = Append(results, Tier1Result(entry.sessionId, n))
        /\ state' = markSessionProcessed(state, entry.sessionId, entry.modified, n, clock)
  /\ pc' = PcAfterMark(idx, Len(toProcess))
  /\ idx' = IF PcAfterMark(idx, Len(toProcess)) = "saveWrite" THEN idx ELSE idx + 1
  /\ UNCHANGED <<loopFrame, sessionsWithFindings, verifyResults, outcome,
                 voutcome, term, fs, latestReport, reportHistory, verifiedReport>>
  /\ saving' = IF PcAfterMark(idx, Len(toProcess)) = "saveWrite" THEN saving + 1 ELSE saving
  /\ UNCHANGED prev
  /\ UNCHANGED inflight

\* analyzeTier1 rejects (callModel rethrew).
AnalyzeTier1Throws ==
  /\ pc = "analyze"
  /\ calls' = calls \cup {toProcess[idx].sessionId}
  /\ Stage1Failed
  /\ UNCHANGED <<loopFrame, results, sessionsWithFindings, verifyResults,
                 voutcome, term, state, fs, latestReport, reportHistory, verifiedReport>>
  /\ UNCHANGED <<saving, prev>>

\* saveState, fs.writeFile(tempFile, ...): the file is opened and truncated
\* and part of the text is written.
SaveWriteBegin ==
  /\ pc = "saveWrite"
  /\ fs' = [fs EXCEPT ![tempFile] = File(TRUE, FALSE, state)]
  /\ pc' = "saveWriting"
  /\ UNCHANGED <<loopFrame, idx, results, sessionsWithFindings, verifyResults, outcome,
                 voutcome, calls, term, state, latestReport, reportHistory, verifiedReport>>
  /\ UNCHANGED <<inflight, saving, prev>>

\* fs.writeFile resolves: the whole text is in the file.
SaveWriteEnd ==
  /\ pc = "saveWriting"
  /\ fs' = [fs EXCEPT ![tempFile] = File(TRUE, TRUE, state)]
  /\ pc' = "saveRename"
  /\ UNCHANGED <<loopFrame, idx, results, sessionsWithFindings, verifyResults, outcome,
                 voutcome, calls, term, state, latestReport, reportHistory, verifiedReport>>
  /\ UNCHANGED <<inflight, saving, prev>>

\* fs.writeFile rejects, before or after it wrote a part.
SaveWriteThrows ==
  /\ pc \in {"saveWrite", "saveWriting"}
  /\ Stage1Failed
  /\ UNCHANGED <<loopFrame, results, sessionsWithFindings, verifyResults,
                 voutcome, calls, term, state, fs, latestReport, reportHistory, verifiedReport>>
  /\ saving' = saving - 1
  /\ UNCHANGED prev

\* fs.rename(tempFile, STATE_FILE) replaces the ledger in one step; the
\* session is then reported as analyzed.
SaveRename ==
  /\ pc = "saveRename"
  /\ fs' = [fs EXCEPT ![tempFile] = NoFile, ![STATE_FILE] = fs[tempFile]]
  /\ outcome' = [outcome EXCEPT ![toProcess[idx].sessionId] = "analyzed"]
  /\ Stage1Goto(idx + 1)
  /\ UNCHANGED <<loopFrame, results, sessionsWithFindings, verifyResults,
                 voutcome, calls, term, state, latestReport, reportHistory, verifiedReport>>
  /\ saving' = saving - 1
  /\ UNCHANGED prev

SaveRenameThrows ==
  /\ pc = "saveRename"
  /\ Stage1Failed
  /\ UNCHANGED <<loopFrame, results, sessionsWithFindings, verifyResults,
                 voutcome, calls, term, state, fs, latestReport, reportHistory, verifiedReport>>
  /\ saving' = saving - 1
  /\ UNCHANGED prev

\* After the Stage-1 loop with no result: "No sessions were analyzed."
NoSessionsAnalyzed ==
  /\ pc = "report"
  /\ results = <<>>
  /\ pc' = "done"
  /\ term' = "no sessions analyzed"
  /\ UNCHANGED <<loopFrame, idx, results, sessionsWithFindings, verifyResults, outcome,
                 voutcome, calls, state, fs, latestReport, reportHistory, verifiedReport>>
  /\ UNCHANGED <<inflight, saving, prev>>

\* writeReport(results); scan ends here, pipeline selects the sessions with
\* findings and enters the Stage-2 loop.
WriteReport ==
  /\ pc = "report"
  /\ results # <<>>
  /\ latestReport' = Report(TRUE, results)
  /\ reportHistory' = reportHistory \cup { results[k].sessionId : k \in 1..Len(results) }
  /\ IF cmd = "scan"
     THEN /\ pc' = "done" /\ term' = "stage1 complete"
          /\ UNCHANGED <<idx, sessionsWithFindings>>
     ELSE IF WithFindings(results) = <<>>
          THEN /\ pc' = "done" /\ term' = "stage1 complete, nothing to verify"
               /\ UNCHANGED <<idx, sessionsWithFindings>>
          ELSE /\ pc' = "find" /\ term' = ""
               /\ idx' = 1
               /\ sessionsWithFindings' = WithFindings(results)
  /\ UNCHANGED <<loopFrame, results, verifyResults, outcome,
                 voutcome, calls, state, fs, verifiedReport>>
  /\ inflight' = IF pc' = "find" THEN {sessionsWithFindings'[1].sessionId} ELSE inflight
  /\ UNCHANGED <<saving, prev>>

\* A pipeline that goes on to Stage 2 although writeReport rejected.
WriteReportThrowsIntoStage2 ==
  /\ pc = "report"
  /\ results # <<>>
  /\ IF cmd = "pipeline" /\ WithFindings(results) # <<>>
     THEN /\ pc' = "find" /\ term' = ""
          /\ idx' = 1
          /\ sessionsWithFindings' = WithFindings(results)
          /\ inflight' = {sessionsWithFindings'[1].sessionId}
     ELSE /\ pc' = "done" /\ term' = "fatal"
          /\ UNCHANGED <<idx, sessionsWithFindings, inflight>>
  /\ UNCHANGED <<loopFrame, results, verifyResults, outcome,
                 voutcome, calls, state, fs, latestReport, reportHistory, verifiedReport, saving, prev>>

\* writeReport rejects (mkdir or writeFile): unhandled, the command ends.
WriteReportThrows ==
  /\ pc = "report"
  /\ results # <<>>
  /\ pc' = "done"
  /\ term' = "fatal"
  /\ UNCHANGED <<loopFrame, idx, results, sessionsWithFindings, verifyResults, outcome,
                 voutcome, calls, state, fs, latestReport, reportHistory, verifiedReport>>
  /\ UNCHANGED <<inflight, saving, prev>>

\* verify: reads the Stage-1 report (latest.json), keeps the sessions with
\* findings, lists them under --dry-run.
StartVerify(dryRun) ==
  /\ cmd = "idle"
  /\ clock < MaxClock
  /\ clock' = clock + 1
  /\ cmd' = "verify"
  /\ opts' = [all |-> FALSE, dryRun |-> dryRun, limit |-> 0]
  /\ IF ~latestReport.present
     THEN /\ pc' = "done" /\ term' = "no report"
          /\ UNCHANGED <<idx, sessionsWithFindings>>
     ELSE IF WithFindings(latestReport.results) = <<>>
          THEN /\ pc' = "done" /\ term' = "nothing to verify"
               /\ UNCHANGED <<idx, sessionsWithFindings>>
          ELSE /\ sessionsWithFindings' = WithFindings(latestReport.results)
               /\ IF dryRun
                  THEN pc' = "done" /\ term' = "dry run" /\ idx' = idx
                  ELSE pc' = "find" /\ term' = "" /\ idx' = 1
  /\ UNCHANGED <<entries, toProcess, results, verifyResults, ledgerAtStart, outcome,
                 voutcome, calls, state, marks, verifyVars, pureVars, diskVars>>
  /\ inflight' = IF pc' = "find" THEN {sessionsWithFindings'[1].sessionId} ELSE inflight
  /\ UNCHANGED <<saving, prev>>

\* The Stage-2 loop moves on to index k (or leaves the loop).
Stage2Goto(k) ==
  /\ idx' = k
  /\ pc' = IF k > Len(sessionsWithFindings) THEN "vreport" ELSE "find"
  /\ inflight' = (inflight \ {sessionsWithFindings[idx].sessionId})
                   \cup (IF k > Len(sessionsWithFindings) THEN {}
                         ELSE {sessionsWithFindings[k].sessionId})

\* The catch block of the Stage-2 loop.
Stage2Failed ==
  /\ voutcome' = [voutcome EXCEPT ![sessionsWithFindings[idx].sessionId] = "failed"]
  /\ Stage2Goto(IndexAfterFailure(idx, Len(sessionsWithFindings)))

FindSessionEntryReturns ==
  /\ pc = "find"
  /\ pc' = "verify"
  /\ UNCHANGED <<loopFrame, idx, results, sessionsWithFindings, verifyResults, outcome,
                 voutcome, calls, term, state, fs, latestReport, reportHistory, verifiedReport>>
  /\ UNCHANGED <<inflight, saving, prev>>

\* findSessionEntry resolves with null: "session not found, skipping".
FindSessionEntryNull ==
  /\ pc = "find"
  /\ voutcome' = [voutcome EXCEPT ![sessionsWithFindings[idx].sessionId] = "notfound"]
  /\ Stage2Goto(idx + 1)
  /\ UNCHANGED <<loopFrame, results, sessionsWithFindings, verifyResults, outcome,
                 calls, term, state, fs, latestReport, reportHistory, verifiedReport>>
  /\ UNCHANGED <<saving, prev>>

FindSessionEntryThrows ==
  /\ pc = "find"
  /\ Stage2Failed
  /\ UNCHANGED <<loopFrame, results, sessionsWithFindings, verifyResults, outcome,
                 calls, term, state, fs, latestReport, reportHistory, verifiedReport>>
  /\ UNCHANGED <<saving, prev>>

\* verifySession resolves: one verdict per flag of the Tier1Result.
VerifySessionResolves ==
  /\ pc = "verify"
  /\ LET r == sessionsWithFindings[idx]
     IN /\ verifyResults' = Append(verifyResults, Tier2Result(r.sessionId, r.flags))
        /\ voutcome' = [voutcome EXCEPT ![r.sessionId] = "verified"]
  /\ Stage2Goto(idx + 1)
  /\ UNCHANGED <<loopFrame, results, sessionsWithFindings, outcome,
                 calls, term, state, fs, latestReport, reportHistory, verifiedReport>>
  /\ UNCHANGED <<saving, prev>>

VerifySessionRejects ==
  /\ pc = "verify"
  /\ Stage2Failed
  /\ UNCHANGED <<loopFrame, results, sessionsWithFindings, verifyResults, outcome,
                 calls, term, state, fs, latestReport, reportHistory, verifiedReport>>
  /\ UNCHANGED <<saving, prev>>

\* After the Stage-2 loop with no result.
NoSessionsVerified ==
  /\ pc = "vreport"
  /\ verifyResults = <<>>
  /\ pc' = "done"
  /\ term' = "no sessions verified"
  /\ UNCHANGED <<loopFrame, idx, results, sessionsWithFindings, verifyResults, outcome,
                 voutcome, calls, state, fs, latestReport, reportHistory, verifiedReport>>
  /\ UNCHANGED <<inflight, saving, prev>>

\* A run that ends as complete without the Stage-2 report on disk.
WriteVerificationReportNotPersisted ==
  /\ pc = "vreport"
  /\ verifyResults # <<>>
  /\ pc' = "done"
  /\ term' = "stage2 complete"
  /\ UNCHANGED <<loopFrame, idx, results, sessionsWithFindings, verifyResults, outcome,
                 voutcome, calls, state, fs, latestReport, reportHistory, verifiedReport,
                 inflight, saving, prev>>

\* writeVerificationReport(verifyResults, reportPath, model)
WriteVerificationReport ==
  /\ pc = "vreport"
  /\ verifyResults # <<>>
  /\ verifiedReport' = Report(TRUE, verifyResults)
  /\ pc' = "done"
  /\ term' = "stage2 complete"
  /\ UNCHANGED <<loopFrame, idx, results, sessionsWithFindings, verifyResults, outcome,
                 voutcome, calls, state, fs, latestReport, reportHistory>>
  /\ UNCHANGED <<inflight, saving, prev>>

WriteVerificationReportThrows ==
  /\ pc = "vreport"
  /\ verifyResults # <<>>
  /\ pc' = "done"
  /\ term' = "fatal"
  /\ UNCHANGED <<loopFrame, idx, results, sessionsWithFindings, verifyResults, outcome,
                 voutcome, calls, state, fs, latestReport, reportHistory, verifiedReport>>
  /\ UNCHANGED <<inflight, saving, prev>>

Next ==
  \/ \E S \in SUBSET SessionIds, all \in BOOLEAN, dryRun \in BOOLEAN, limit \in Limits :
       StartScan(S, all, dryRun, limit)
  \/ \E S \in SUBSET SessionIds, all \in BOOLEAN, limit \in Limits :
       StartPipeline(S, all, limit)
  \/ \E dryRun \in BOOLEAN : StartVerify(dryRun)
  \/ LoadState
  \/ LoadStateThrows
  \/ ParseSessionReturns
  \/ ParseSessionEmpty
  \/ ParseSessionThrows
  \/ \E n \in 0..MaxFindings : AnalyzeTier1Returns(n)
  \/ AnalyzeTier1Throws
  \/ SaveWriteBegin
  \/ SaveWriteEnd
  \/ SaveWriteThrows
  \/ SaveRename
  \/ SaveRenameThrows
  \/ NoSessionsAnalyzed
  \/ WriteReport
  \/ WriteReportThrows
  \/ FindSessionEntryReturns
  \/ FindSessionEntryNull
  \/ FindSessionEntryThrows
  \/ VerifySessionResolves
  \/ VerifySessionRejects
  \/ NoSessionsVerified
  \/ WriteVerificationReport
  \/ WriteVerificationReportThrows
  \/ Exit
  \/ Crash
  \/ \E s \in SessionIds : EditLog(s)
  \/ Reset

Spec == Init /\ [][Next]_vars

\* ------------------------------------------------------ claims on the runs
InStage1Loop == pc \in {"parse", "analyze", "saveWrite", "saveWriting", "saveRename"}

InStage2Loop == pc \in {"find", "verify"}

\* The sessions of toProcess, and those at the positions before k.
Selected == { toProcess[k].sessionId : k \in 1..Len(toProcess) }

SelectedBefore(k) == { toProcess[j].sessionId : j \in 1..(k - 1) }

EntryOf(s) == CHOOSE e \in { toProcess[k] : k \in 1..Len(toProcess) } : e.sessionId = s

\* The ledger holds a record for s with exactly this signature.
HasMatchingRecord(ledger, s, sig) ==
  /\ ledger.processedSessions[s] # NoRecord
  /\ ledger.processedSessions[s].modifiedAt = sig

\* C5: the ledger path never shows a partly written file, and every step
\* leaves there either what was there or the whole state being saved; only
\* reset removes the file.
C5_AtomicPersistence ==
  /\ [](fs[STATE_FILE].present => fs[STATE_FILE].whole)
  /\ [][\/ fs'[STATE_FILE] = fs[STATE_FILE]
        \/ fs'[STATE_FILE] = File(TRUE, TRUE, state)
        \/ Reset]_vars

\* A crash between the temp-file write and the rename: the temp file is left
\* behind and the ledger still holds the previous state.
C5_Witness ==
  /\ cmd = "idle"
  /\ fs[tempFile].present
  /\ fs[tempFile].whole
  /\ fs[STATE_FILE].present
  /\ fs[STATE_FILE].whole
  /\ fs[STATE_FILE].data # fs[tempFile].data

\* The sessions whose Stage-1 analysis completed in this run, and those of
\* them whose record the persisted ledger does not hold.
Analyzed == { results[k].sessionId : k \in 1..Len(results) }

Lost == { s \in Analyzed : ~HasMatchingRecord(Persisted(fs), s, EntryOf(s).modified) }

C7_FailureIsolation ==
  /\ (cmd \in {"scan", "pipeline"} /\ InStage1Loop) =>
       \A s \in SelectedBefore(idx) : outcome[s] # "none"
  /\ (cmd \in {"scan", "pipeline"} /\ ~opts.dryRun /\ ~InStage1Loop /\ pc # "load") =>
       \A s \in Selected : outcome[s] # "none"
  /\ InStage2Loop =>
       \A k \in 1..(idx - 1) : voutcome[sessionsWithFindings[k].sessionId] # "none"
  /\ (~opts.dryRun /\ pc \in {"vreport", "done"}) =>
       \A k \in 1..Len(sessionsWithFindings) :
         voutcome[sessionsWithFindings[k].sessionId] # "none"

C7_Witness ==
  /\ cmd = "pipeline"
  /\ pc = "done"
  /\ Len(toProcess) = 2
  /\ outcome[toProcess[1].sessionId] = "failed"
  /\ outcome[toProcess[2].sessionId] = "analyzed"
  /\ voutcome[toProcess[2].sessionId] = "verified"

\* C8 as stated: a session reported as failed in the Stage-1 loop gets no
\* ledger record from this run: what the persisted ledger holds for it is
\* nothing, or the record that was there when the run began.
C8_FailedLeavesNoRecord ==
  \A s \in SessionIds :
    (cmd \in {"scan", "pipeline"} /\ outcome[s] = "failed") =>
      \/ Persisted(fs).processedSessions[s] = NoRecord
      \/ Persisted(fs).processedSessions[s] = ledgerAtStart.processedSessions[s]

\* C9: without --all, the sessions selected for Stage 1 are those with no
\* record of exactly their current signature in the loaded ledger (all of
\* them when there is no --limit); a model call is made only for a selected
\* session, never for one with a matching record.
Eligible ==
  { entries[k].sessionId : k \in { j \in 1..Len(entries) :
      ~HasMatchingRecord(ledgerAtStart, entries[j].sessionId, entries[j].modified) } }

C9_IncrementalSkip ==
  (cmd \in {"scan", "pipeline"} /\ ~opts.all /\ pc # "load" /\ term # "fatal") =>
    /\ Selected \subseteq Eligible
    /\ opts.limit = 0 => Selected = Eligible
    /\ Eligible # {} => Selected # {}
    /\ calls \subseteq Selected
    /\ \A k \in 1..Len(entries) :
         HasMatchingRecord(ledgerAtStart, entries[k].sessionId, entries[k].modified)
           => entries[k].sessionId \notin calls

C9_Witness ==
  /\ cmd = "scan"
  /\ ~opts.all
  /\ Len(entries) = 2
  /\ HasMatchingRecord(ledgerAtStart, 1, modified[1])
  /\ ledgerAtStart.processedSessions[2] # NoRecord
  /\ ~HasMatchingRecord(ledgerAtStart, 2, modified[2])
  /\ calls = {2}
  /\ pc = "done"

\* C10 as stated: a record in the persisted ledger stays there, unchanged
\* or replaced by a newer record of the same session, in every step but
\* reset.
C10_RecordsPersist ==
  [][\/ Reset
     \/ \A s \in SessionIds :
          Persisted(fs).processedSessions[s] # NoRecord =>
            /\ Persisted(fs').processedSessions[s] # NoRecord
            /\ \/ Persisted(fs').processedSessions[s] = Persisted(fs).processedSessions[s]
               \/ Persisted(fs').processedSessions[s].processedAt
                    >= Persisted(fs).processedSessions[s].processedAt]_vars

\* ---------------------------------------------- condenser: parseSession
\* The logs tried: a block of roles of length up to MaxBlock repeated, with
\* one text length per role, long enough in number and size to cross both
\* windowing thresholds of both modes.
RECURSIVE RoleSeqs(_)
RoleSeqs(n) ==
  IF n = 0 THEN {<<>>}
  ELSE { Append(s, r) : s \in RoleSeqs(n - 1), r \in Roles }

Blocks == UNION { RoleSeqs(n) : n \in 1..MaxBlock }

Reps == {1, 2, 20, 21, 40, 41, 50, 51, 100, 101}

UserLens == {1, 13000}

AssistantLens == {1, MAX_ASSISTANT_CHARS, MAX_ASSISTANT_CHARS + 1, 9000}

ToolLens == {0, 7}

Log(block, reps, userLen, assistantLen, tool) ==
  [i \in 1..(Len(block) * reps) |->
     LET role == block[((i - 1) % Len(block)) + 1]
     IN RawMessage(role, i, IF role = "user" THEN userLen ELSE assistantLen, tool)]

InitCondense ==
  /\ \E block \in Blocks, reps \in Reps, userLen \in UserLens,
        assistantLen \in AssistantLens, tool \in ToolLens :
       rawMessages = Log(block, reps, userLen, assistantLen, tool)
  /\ full \in BOOLEAN
  /\ conversationText = <<>>
  /\ cpc = "ready"
  /\ Tier1Idle
  /\ CallModelIdle
  /\ ReaderIdle
  /\ VerifyIdle
  /\ LedgerIdle
  /\ DiskInit
  /\ RunIdle

\* parseSession resolves: every entry is extracted, then the text is built.
ParseSession ==
  /\ cpc = "ready"
  /\ conversationText' = buildConversationText(ParseMessages(rawMessages, full), full)
  /\ cpc' = "returned"
  /\ UNCHANGED <<rawMessages, full, tier1Vars, callVars, readerVars, verifyVars, ledgerVars, diskVars,
                 runVars>>

\* The read stream fails (the log was removed): parseSession rejects.
ParseSessionRejects ==
  /\ cpc = "ready"
  /\ cpc' = "threw"
  /\ UNCHANGED <<rawMessages, full, conversationText, tier1Vars, callVars, readerVars, verifyVars,
                 ledgerVars, diskVars, runVars>>

NextCondense ==
  \/ ParseSession
  \/ ParseSessionRejects

SpecCondense == InitCondense /\ [][NextCondense]_vars

\* For stating the claims: the user positions of the log, the rank of one
\* among them, the window half-size and budget of the mode, and the length
\* of the text assembled before any windowing.
UserPositions == { i \in 1..Len(rawMessages) : rawMessages[i].role = "user" }

UserRank(i) == Cardinality({ j \in UserPositions : j <= i })

ActiveWindow == IF full THEN FULL_WINDOW_SIZE ELSE BOUNDED_WINDOW_SIZE

ActiveBudget == IF full THEN FULL_MAX_TOTAL_CHARS ELSE MAX_TOTAL_CHARS

AssembledLength ==
  LET msgs == ParseMessages(rawMessages, full)
  IN JoinedLength([i \in 1..Len(msgs) |-> Part(msgs[i])])

WindowingApplies ==
  /\ AssembledLength > ActiveBudget
  /\ Cardinality(UserPositions) > 2 * ActiveWindow

InWindow(i) ==
  LET rank == UserRank(i)
  IN rank <= ActiveWindow \/ rank > Cardinality(UserPositions) - ActiveWindow

UserParts == { k \in 1..Len(conversationText) : conversationText[k].label = "User" }

MarkerParts == { k \in 1..Len(conversationText) : conversationText[k].label = "marker" }

MessageParts == (1..Len(conversationText)) \ MarkerParts

\* C11 as stated: in bounded mode the text holds the whole text of every
\* user message of the log, whatever its length and size.
C11_UserTextNeverDropped ==
  (cpc = "returned" /\ ~full) =>
    \A i \in UserPositions :
      \E k \in UserParts : conversationText[k].text = rawMessages[i].content

\* C11 as amended: in bounded mode a user message is never shortened (each
\* user part is the whole text of its message), and a user message is
\* missing from the text only when the windowing applies and it is outside
\* the first and last window of user messages.
C11_UserTextNeverShortened ==
  (cpc = "returned" /\ ~full) =>
    /\ \A k \in UserParts :
         /\ conversationText[k].text.src \in UserPositions
         /\ conversationText[k].text = rawMessages[conversationText[k].text.src].content
    /\ \A i \in UserPositions :
         \/ \E k \in UserParts : conversationText[k].text = rawMessages[i].content
         \/ WindowingApplies /\ ~InWindow(i)

C11_Witness ==
  /\ cpc = "returned"
  /\ ~full
  /\ WindowingApplies
  /\ \E k \in UserParts : conversationText[k].text.len > MAX_ASSISTANT_CHARS
  /\ \E k \in MessageParts :
       conversationText[k].label = "Assistant" /\ conversationText[k].text.cut
  /\ \E i \in UserPositions :
       \A k \in UserParts : conversationText[k].text.src # i

\* C12: when the windowing applies, the text holds exactly the user messages
\* of the first and last window and the assistant message right before each
\* of them, in log order, and exactly one marker, placed after every part
\* that precedes the first user message of the last window.
KeepSet ==
  LET users == { i \in UserPositions : InWindow(i) }
  IN users \cup { i - 1 : i \in { j \in users : j > 1 /\ rawMessages[j - 1].role = "assistant" } }

LastWindowStart ==
  CHOOSE i \in UserPositions : UserRank(i) = Cardinality(UserPositions) - ActiveWindow + 1

C12_WindowKeepSet ==
  (cpc = "returned" /\ WindowingApplies) =>
    LET keep == KeepSet
        start == LastWindowStart
        srcs == [k \in 1..Len(conversationText) |-> conversationText[k].text.src]
    IN /\ { srcs[k] : k \in MessageParts } = keep
       /\ Cardinality(MessageParts) = Cardinality(keep)
       /\ \A k \in MessageParts :
            (k + 1) \in MessageParts => srcs[k] < srcs[k + 1]
       /\ \A k \in MessageParts :
            ((k + 1) \in MarkerParts /\ (k + 2) \in MessageParts) => srcs[k] < srcs[k + 2]
       /\ Cardinality(MarkerParts) = 1
       /\ \A m \in MarkerParts : \A k \in MessageParts : k < m <=> srcs[k] < start

C12_Witness ==
  /\ cpc = "returned"
  /\ ~full
  /\ WindowingApplies
  /\ Cardinality(UserPositions) = 100
  /\ { UserRank(conversationText[k].text.src) : k \in UserParts } = (1..20) \cup (81..100)
  /\ Cardinality(MarkerParts) = 1
  /\ \E k \in MessageParts : conversationText[k].label = "Assistant"
  /\ Cardinality(MessageParts) < Len(rawMessages)

\* ------------------------------------------------ Stage 1: analyzeTier1
InitTier1 ==
  /\ t1Response \in Tier1ResponseTexts
  /\ t1Flags = <<>>
  /\ t1pc = "calling"
  /\ CondenseIdle
  /\ CallModelIdle
  /\ ReaderIdle
  /\ VerifyIdle
  /\ LedgerIdle
  /\ DiskInit
  /\ RunIdle

\* callHaiku resolves with the response text.
CallHaikuResolves ==
  /\ t1pc = "calling"
  /\ t1pc' = "parsing"
  /\ UNCHANGED <<t1Response, t1Flags, condVars, callVars, readerVars, verifyVars, ledgerVars, diskVars,
                 runVars>>

\* callHaiku rejects: analyzeTier1 rejects with the same error.
CallHaikuRejects ==
  /\ t1pc = "calling"
  /\ t1pc' = "threw"
  /\ UNCHANGED <<t1Response, t1Flags, condVars, callVars, readerVars, verifyVars, ledgerVars, diskVars,
                 runVars>>

\* The response is parsed and the result returned.
AnalyzeTier1Completes ==
  /\ t1pc = "parsing"
  /\ t1Flags' = ParseFlags(t1Response)
  /\ t1pc' = "returned"
  /\ UNCHANGED <<t1Response, condVars, callVars, readerVars, verifyVars, ledgerVars, diskVars, runVars>>

NextTier1 ==
  \/ CallHaikuResolves
  \/ CallHaikuRejects
  \/ AnalyzeTier1Completes

SpecTier1 == InitTier1 /\ [][NextTier1]_vars

\* What JSON.parse makes of the Stage-1 response, for stating the claim.
Tier1ResponseIsArray ==
  /\ JsonParses(ExtractJsonText(t1Response))
  /\ IsArray(JsonParse(ExtractJsonText(t1Response)))

PassesValidation(e) ==
  /\ e.kind = "object"
  /\ e.type \in FlagTypes
  /\ e.confidence \in Confidences
  /\ \A f \in {e.excerpt, e.whatHappened, e.recommendation} : f \notin {"absent", "number"}

\* C13: once the response text is there analyzeTier1 cannot throw (it
\* throws only while the model call is pending); the flags returned are none
\* when the text is invalid JSON or not an array, and otherwise the elements
\* of the array that pass validation, in their order.
C13_Tier1NeverFailsOnOutput ==
  /\ [](t1pc = "returned" =>
          IF Tier1ResponseIsArray
          THEN t1Flags = SelectSeq(JsonParse(ExtractJsonText(t1Response)).elems, PassesValidation)
          ELSE t1Flags = <<>>)
  /\ [][t1pc = "parsing" => t1pc' = "returned"]_vars
  /\ [][t1pc' = "threw" => t1pc = "calling"]_vars

C13_Witness ==
  /\ t1pc = "returned"
  /\ Tier1ResponseIsArray
  /\ Len(JsonParse(ExtractJsonText(t1Response)).elems) = 2
  /\ Len(t1Flags) = 1
  /\ t1Flags[1] = JsonParse(ExtractJsonText(t1Response)).elems[2]

\* ------------------------------------------------ model client: callModel
callFrame == <<callOptions, condVars, tier1Vars, readerVars, verifyVars, ledgerVars, diskVars, runVars>>

InitCallModel ==
  /\ callOptions \in CallerOptions
  /\ attempt = 0
  /\ lastError = NoError
  /\ attempts = <<>>
  /\ sleeps = <<>>
  /\ thrown = NoError
  /\ cmpc = "delay"
  /\ CondenseIdle
  /\ Tier1Idle
  /\ ReaderIdle
  /\ VerifyIdle
  /\ LedgerIdle
  /\ DiskInit
  /\ RunIdle

\* The for loop's test, after the initial delay and after each continue.
LoopTest(k) == IF k < MAX_RETRIES THEN "create" ELSE "threw"

\* await sleep(DELAY_MS), then the loop is entered.
InitialDelay ==
  /\ cmpc = "delay"
  /\ sleeps' = Append(sleeps, DELAY_MS)
  /\ cmpc' = LoopTest(attempt)
  /\ UNCHANGED <<attempt, lastError, attempts, thrown, callFrame>>

\* messages.create resolves with a text block: callModel returns.
CreateReturnsText ==
  /\ cmpc = "create"
  /\ attempts' = Append(attempts, Response(TRUE))
  /\ cmpc' = "returned"
  /\ UNCHANGED <<attempt, lastError, sleeps, thrown, callFrame>>

\* An attempt failed with err: the catch block up to its await or throw.
Caught(err) ==
  /\ lastError' = err
  /\ IF IsTransient(err)
     THEN cmpc' = "backoff" /\ thrown' = thrown
     ELSE cmpc' = "threw" /\ thrown' = err

\* messages.create resolves without a text block: the Error thrown in the
\* try block is caught by the same catch.
CreateReturnsNoText ==
  /\ cmpc = "create"
  /\ attempts' = Append(attempts, Response(FALSE))
  /\ Caught(NoTextError)
  /\ UNCHANGED <<attempt, sleeps, callFrame>>

\* messages.create rejects.
CreateRejects(status) ==
  /\ cmpc = "create"
  /\ attempts' = Append(attempts, ApiError(status))
  /\ Caught(ApiError(status))
  /\ UNCHANGED <<attempt, sleeps, callFrame>>

\* await sleep(backoff); continue; and, when the loop is over, throw lastError.
BackoffSleep ==
  /\ cmpc = "backoff"
  /\ sleeps' = Append(sleeps, Backoff(attempt))
  /\ attempt' = attempt + 1
  /\ cmpc' = LoopTest(attempt + 1)
  /\ thrown' = IF LoopTest(attempt + 1) = "threw" THEN lastError ELSE thrown
  /\ UNCHANGED <<lastError, attempts, callFrame>>

NextCallModel ==
  \/ InitialDelay
  \/ CreateReturnsText
  \/ CreateReturnsNoText
  \/ \E status \in ErrorStatuses : CreateRejects(status)
  \/ BackoffSleep

\* Every sleep ends and every remote attempt returns.
SpecCallModel == InitCallModel /\ [][NextCallModel]_vars /\ WF_vars(NextCallModel)

\* For stating the claims: how an attempt failed, and whether with 429 or 529.
FailureOf(a) == IF a.kind = "response" THEN NoTextError ELSE a

Failed(a) == a # Response(TRUE)

Transient(a) == a.kind = "error" /\ a.status \in {429, 529}

\* C14: an attempt is made again only after a 429 or 529 failure; an attempt
\* that fails otherwise (another status, or no status as with a response
\* that has no text block) ends the call at once with that error, with no
\* sleep after it.
C14_OnlyTransientRetried ==
  /\ \A k \in 1..(Len(attempts) - 1) : Transient(attempts[k])
  /\ \A k \in 1..Len(attempts) :
       (Failed(attempts[k]) /\ ~Transient(attempts[k])) =>
         /\ k = Len(attempts)
         /\ cmpc = "threw"
         /\ thrown = FailureOf(attempts[k])
         /\ Len(sleeps) = k

C14_Witness ==
  /\ Len(attempts) = 2
  /\ attempts[1] = ApiError(429)
  /\ attempts[2] = Response(FALSE)
  /\ cmpc = "threw"
  /\ sleeps = <<500, 2000>>

\* C15: at most MAX_RETRIES attempts are made; the sleeps are the initial
\* delay and then 2000 * 2^k ms after the transient failure of attempt k
\* (k from 0); after the third transient failure in a row the last error is
\* thrown; and the call always ends, returning or throwing.
C15_BoundedRetry ==
  /\ [](Len(attempts) <= 3)
  /\ [](\A j \in 1..Len(sleeps) :
          sleeps[j] = IF j = 1 THEN 500 ELSE 2000 * 2^(j - 2))
  /\ []((cmpc \in {"create", "returned", "threw"}) =>
          Len(sleeps) = 1 + Cardinality({ k \in 1..Len(attempts) : Transient(attempts[k]) }))
  /\ []((Len(attempts) = 3 /\ Transient(attempts[3]) /\ cmpc # "backoff") =>
          (cmpc = "threw" /\ thrown = attempts[3]))
  /\ <>(cmpc \in {"returned", "threw"})

C15_Witness ==
  /\ cmpc = "threw"
  /\ Len(attempts) = 3
  /\ attempts[3] = ApiError(529)
  /\ thrown = ApiError(529)
  /\ sleeps = <<500, 2000, 4000, 8000>>

\* ------------------------------------------------ claims on concurrency
\* The limit the README documents for --concurrency.
DEFAULT_CONCURRENCY == 5

\* The session the loops are working on, if any.
CurrentUnit ==
  IF InStage1Loop THEN {toProcess[idx].sessionId}
  ELSE IF InStage2Loop THEN {sessionsWithFindings[idx].sessionId}
  ELSE {}

C17_SavesMutuallyExclusive ==
  /\ [](/\ saving <= 1
        /\ saving = 1 <=> pc \in {"saveWrite", "saveWriting", "saveRename"}
        /\ pc = "saveRename" => fs[tempFile] = File(TRUE, TRUE, state)
        /\ cmd \in {"scan", "pipeline"} =>
             \A s \in Analyzed : HasMatchingRecord(state, s, EntryOf(s).modified))
  /\ [][(cmd \in {"scan", "pipeline"} /\ fs'[STATE_FILE] # fs[STATE_FILE]) =>
          /\ pc = "saveRename"
          /\ \A s \in Analyzed :
               HasMatchingRecord(Persisted(fs'), s, EntryOf(s).modified)]_vars

\* The second save of a run is about to replace the ledger left by the
\* first one.
C17_Witness ==
  /\ pc = "saveRename"
  /\ idx = 2
  /\ saving = 1
  /\ Len(results) = 2
  /\ HasMatchingRecord(Persisted(fs), toProcess[1].sessionId, toProcess[1].modified)
  /\ ~HasMatchingRecord(Persisted(fs), toProcess[2].sessionId, toProcess[2].modified)

\* ------------------------------------------------- claims on the stages
\* Stage 2 of the run has begun: a session is being verified or was.
Stage2Begun ==
  \/ InStage2Loop
  \/ pc = "vreport"
  \/ \E s \in SessionIds : voutcome[s] # "none"

ReportedSessions(report) ==
  { report.results[k].sessionId : k \in 1..Len(report.results) }

\* C18: in a pipeline run Stage 2 begins only when every selected session
\* was resolved by Stage 1 and the Stage-1 report on disk is the one of this
\* run, holding every session Stage 2 verifies; when writing the Stage-1
\* report fails the run ends and no session is verified.
C18_StageOrdering ==
  /\ []((cmd = "pipeline" /\ Stage2Begun) =>
          /\ \A s \in Selected : outcome[s] # "none"
          /\ latestReport = Report(TRUE, results)
          /\ \A k \in 1..Len(sessionsWithFindings) :
               /\ sessionsWithFindings[k].sessionId \in ReportedSessions(latestReport)
               /\ sessionsWithFindings[k].flags > 0
          /\ \A s \in SessionIds :
               voutcome[s] # "none" => s \in ReportedSessions(latestReport))
  /\ [][(cmd = "pipeline" /\ pc = "report" /\ latestReport' # Report(TRUE, results)) =>
          /\ pc' \in {"done", "idle"}
          /\ \A s \in SessionIds : voutcome'[s] = "none"]_vars

\* The second of two selected sessions is being verified after the first
\* one came out of Stage 1 clean.
C18_Witness ==
  /\ cmd = "pipeline"
  /\ pc = "verify"
  /\ Len(toProcess) = 2
  /\ outcome[toProcess[1].sessionId] = "analyzed"
  /\ sessionsWithFindings = <<Tier1Result(toProcess[2].sessionId, 1)>>
  /\ latestReport = Report(TRUE, results)

\* The endings of a run that did not die of an unhandled rejection.
FourTerminalStates ==
  {"no sessions matched filters", "all matched sessions already processed",
   "stage1 complete, nothing to verify", "stage2 complete"}

EndedNormally == pc = "done" /\ term # "fatal"

ReachedStage1Loop == toProcess # <<>> /\ ~opts.dryRun

ReachedStage2Loop == \E s \in SessionIds : voutcome[s] # "none"

\* C19 as stated: a pipeline run that ends normally ends in one of the four
\* terminal states, with the Stage-1 report on disk when it reached the
\* Stage-1 loop and the Stage-2 report on disk when it reached the Stage-2
\* loop.
C19_FourTerminalStates ==
  (cmd = "pipeline" /\ EndedNormally) =>
    /\ term \in FourTerminalStates
    /\ ReachedStage1Loop => latestReport = Report(TRUE, results)
    /\ ReachedStage2Loop => verifiedReport = Report(TRUE, verifyResults)

\* C19 as amended: the endings are the four and two more, 'no sessions
\* analyzed' (every selected session failed or was empty: no Stage-1 report
\* is written) and 'no sessions verified' (every session with findings
\* failed or was not found: no Stage-2 report is written); a run that ends
\* in 'stage1 complete, nothing to verify', 'no sessions verified' or
\* 'stage2 complete' has its Stage-1 report on disk, one that ends in
\* 'stage2 complete' its Stage-2 report.
C19_TerminalStates ==
  (cmd = "pipeline" /\ EndedNormally) =>
    /\ term \in FourTerminalStates \cup {"no sessions analyzed", "no sessions verified"}
    /\ term = "no sessions matched filters" => entries = <<>>
    /\ term = "all matched sessions already processed" => toProcess = <<>>
    /\ term = "no sessions analyzed" <=> (ReachedStage1Loop /\ results = <<>>)
    /\ term \in {"stage1 complete, nothing to verify", "no sessions verified",
                 "stage2 complete"} =>
         /\ results # <<>>
         /\ latestReport = Report(TRUE, results)
    /\ term = "stage1 complete, nothing to verify" <=>
         (results # <<>> /\ WithFindings(results) = <<>>)
    /\ term = "no sessions verified" <=>
         (WithFindings(results) # <<>> /\ verifyResults = <<>>)
    /\ term = "stage2 complete" <=> verifyResults # <<>>
    /\ term = "stage2 complete" => verifiedReport = Report(TRUE, verifyResults)

\* A run that ended in 'stage2 complete' with both reports on disk, one
\* session having failed in Stage 1.
C19_Witness ==
  /\ cmd = "pipeline"
  /\ pc = "done"
  /\ term = "stage2 complete"
  /\ Len(toProcess) = 2
  /\ Len(results) = 1
  /\ latestReport = Report(TRUE, results)
  /\ verifiedReport = Report(TRUE, verifyResults)

\* C20: loadState gives the empty state when there is no ledger file and
\* no error; when the file is there a run either goes on with the state the
\* file holds or ends on the error at once, the ledger untouched, no session
\* selected, parsed or analyzed.
C20_LoadOutcomes ==
  [][(pc = "load" /\ ~opts.all /\ pc' \notin {"load", "idle"}) =>
       /\ ~fs[STATE_FILE].present => (state' = DEFAULT_STATE /\ term' # "fatal")
       /\ fs[STATE_FILE].present => (term' = "fatal" \/ state' = fs[STATE_FILE].data)
       /\ term' = "fatal" =>
            /\ pc' = "done"
            /\ fs' = fs
            /\ state' = state
            /\ toProcess' = <<>>
            /\ results' = <<>>
            /\ calls' = {}
            /\ inflight' = {}
            /\ \A s \in SessionIds : outcome'[s] = "none"]_vars

\* A scan that found sessions and ended on the load error, the ledger file
\* still there.
C20_Witness ==
  /\ cmd \in {"scan", "pipeline"}
  /\ pc = "done"
  /\ term = "fatal"
  /\ entries # <<>>
  /\ toProcess = <<>>
  /\ fs[STATE_FILE].present
  /\ Persisted(fs) # DEFAULT_STATE

\* ------------------------------------------------- claims on the options
\* C21: a scan or verify run with --dry-run makes no model call, writes no
\* report and leaves the ledger file as it was: no step of such a run
\* changes the disk, and the run never enters a loop.
C21_DryRunNoEffects ==
  /\ [](opts.dryRun =>
          /\ cmd \in {"scan", "verify"}
          /\ calls = {}
          /\ inflight = {}
          /\ ~InStage1Loop /\ ~InStage2Loop /\ pc \notin {"report", "vreport"}
          /\ results = <<>> /\ verifyResults = <<>>
          /\ \A s \in SessionIds : outcome[s] = "none" /\ voutcome[s] = "none")
  /\ [][(opts.dryRun \/ opts'.dryRun) =>
          /\ fs' = fs
          /\ latestReport' = latestReport
          /\ verifiedReport' = verifiedReport]_vars

\* A dry run over two sessions, one of them in the ledger with an older
\* signature, has listed both and ended.
C21_Witness ==
  /\ cmd = "scan"
  /\ opts.dryRun
  /\ pc = "done"
  /\ term = "dry run"
  /\ Len(toProcess) = 2
  /\ Persisted(fs) # DEFAULT_STATE
  /\ Persisted(fs) = ledgerAtStart

\* ------------------------------------------- claims on the marker's place
\* The kept messages of the tail: the user messages of the last window and
\* the assistant message right before each of them.
InTail(src) ==
  \/ src >= LastWindowStart
  \/ src = LastWindowStart - 1 /\ rawMessages[src].role = "assistant"

\* C24 as stated: when the windowing applies there is exactly one marker,
\* every kept message of the tail (the assistant message kept in front of
\* the first user message of the last window included) comes after it and
\* every kept message of the head before it.
C24_MarkerAtBoundary ==
  (cpc = "returned" /\ WindowingApplies) =>
    /\ Cardinality(MarkerParts) = 1
    /\ \A m \in MarkerParts : \A k \in MessageParts :
         IF InTail(conversationText[k].text.src) THEN k > m ELSE k < m

\* C25 as stated: the conversation text returned is never longer than the
\* budget of the mode, 500,000 characters in bounded mode and 800,000 in
\* full mode.
C25_BoundedOutputSize ==
  cpc = "returned" => JoinedLength(conversationText) <= ActiveBudget

\* ------------------------------------------- reader: the loop of parseSession
\* The lines tried: blank and corrupt lines, assistant entries with a Bash
\* or Skill invocation (plain, sidechain, progress, cut short by a null
\* block), text entries, entries of other kinds and roles, and user entries
\* with one tool result of every text, flagged as error or not.
AssistantLines ==
  { LogEntry(FALSE, "assistant", "assistant", Content(TRUE, 0, <<ToolUse(1, "Bash")>>)),
    LogEntry(FALSE, "assistant", "assistant", Content(TRUE, 0, <<ToolUse(MaxToolId, "Skill")>>)),
    LogEntry(TRUE, "assistant", "assistant", Content(TRUE, 0, <<ToolUse(1, "Bash")>>)),
    LogEntry(FALSE, "progress", "assistant", Content(TRUE, 0, <<ToolUse(1, "Bash")>>)),
    LogEntry(FALSE, "assistant", "assistant",
             Content(TRUE, 0, <<ToolUse(MaxToolId, "Bash"), NullBlock, ToolUse(1, "Bash")>>)),
    LogEntry(FALSE, "assistant", "assistant", Content(FALSE, 5, <<>>)) }

OtherLines ==
  { BlankLine,
    CorruptLine,
    LogEntry(FALSE, "summary", "", Content(FALSE, 0, <<>>)),
    LogEntry(FALSE, "system", "system", Content(FALSE, 5, <<>>)),
    LogEntry(FALSE, "user", "user", Content(FALSE, 0, <<>>)),
    LogEntry(FALSE, "user", "user", Content(FALSE, 7, <<>>)),
    LogEntry(FALSE, "user", "user", Content(TRUE, 0, <<ToolUse(1, "Bash")>>)) }

ResultLogLines ==
  { LogEntry(FALSE, "user", "user", Content(TRUE, 0, <<ToolResult(id, text, err)>>)) :
      id \in ToolIds, text \in ResultTexts, err \in BOOLEAN }
  \cup { LogEntry(FALSE, "user", "user",
                  Content(TRUE, 3, <<ToolResult(1, <<Tok("reject")>>, TRUE),
                                     ToolResult(1, <<Tok("prose")>>, TRUE)>>)) }

LogLines == AssistantLines \cup OtherLines \cup ResultLogLines

InitReader ==
  /\ logLines \in SeqsUpTo(LogLines, MaxLines)
  /\ lineNo = 0
  /\ readMessages = <<>>
  /\ toolUseNames = {}
  /\ rpc = "reading"
  /\ CondenseIdle
  /\ Tier1Idle
  /\ CallModelIdle
  /\ VerifyIdle
  /\ LedgerIdle
  /\ DiskInit
  /\ RunIdle

readerFrame == <<logLines, condVars, tier1Vars, callVars, verifyVars, ledgerVars, diskVars,
                 runVars>>

\* One turn of 'for await (const line of rl)': the line is skipped, or its
\* tool_use ids are tracked and its message, if any, is pushed.
ReadLine ==
  /\ rpc = "reading"
  /\ lineNo < Len(logLines)
  /\ lineNo' = lineNo + 1
  /\ LET line == logLines[lineNo + 1]
         tracked == TrackLine(line, toolUseNames)
     IN /\ toolUseNames' = tracked
        /\ readMessages' = readMessages \o PushLine(line, lineNo + 1, tracked)
  /\ UNCHANGED <<rpc, readerFrame>>

\* The stream ends: buildConversationText and the return.
ReadEnd ==
  /\ rpc = "reading"
  /\ lineNo = Len(logLines)
  /\ rpc' = "returned"
  /\ UNCHANGED <<lineNo, readMessages, toolUseNames, readerFrame>>

\* The read stream fails: parseSession rejects.
ReadStreamFails ==
  /\ rpc = "reading"
  /\ rpc' = "threw"
  /\ UNCHANGED <<lineNo, readMessages, toolUseNames, readerFrame>>

NextReader ==
  \/ ReadLine
  \/ ReadEnd
  \/ ReadStreamFails

SpecReader == InitReader /\ [][NextReader]_vars

\* ------------------------------------------------- claims on the reader
\* What the claims call a user rejection, a nonzero exit code and the
\* feedback of a rejection, read off the text.
StartsWithRejection(text) == Len(text) > 0 /\ text[1] = Tok("reject")

HasNonzeroExit(text) ==
  \E i \in 1..Len(text) : text[i] = Tok("exit") /\ i < Len(text) /\ text[i + 1] # Tok("zero")

HasMarker(text) == \E i \in 1..Len(text) : text[i] = Tok("said")

Rejected(block) == StartsWithRejection(block.content)

Errored(block) == ~Rejected(block) /\ (block.is_error \/ HasNonzeroExit(block.content))

\* The line is the one the priority rule gives for the block.
IsLineOf(line, block) ==
  IF Rejected(block)
  THEN /\ line.tag = "[rejected]"
       /\ ~HasMarker(block.content) => line.text = <<>>
       /\ HasMarker(block.content) =>
            \E i \in 1..Len(block.content) :
              /\ block.content[i] = Tok("said")
              /\ \A j \in 1..(i - 1) : block.content[j] # Tok("said")
              /\ line.text = Trim(SubSeq(block.content, i + 1, Len(block.content)))
  ELSE /\ line.tag = "[error]"
       /\ line.text = block.content
       /\ line.chars <= TOOL_ERROR_CHARS
       /\ line.cut <=> TokensLength(block.content) > TOOL_ERROR_CHARS
       /\ ~line.cut => line.chars = TokensLength(block.content)

\* The lines the message pushed by this step took from tool results.
NewResultLines ==
  IF Len(readMessages') > Len(readMessages)
  THEN readMessages'[Len(readMessages')].lines
  ELSE <<>>

\* C22: each tool-result block of a user message that is paired to a known
\* invocation and has non-empty text gives at most one line: the
\* '[rejected]' line (with the feedback after the marker, bare without it)
\* when the text is a user rejection, also when is_error is set; otherwise
\* the '[error]' line of the text cut to 800 characters when is_error is set
\* or the text holds a nonzero exit code; otherwise none. Other blocks of a
\* user message give no line.
C22_ToolResultClassification ==
  [][(lineNo' = lineNo + 1 /\ ~FilteredOut(logLines[lineNo']) /\ logLines[lineNo'].role = "user"
        /\ logLines[lineNo'].content.isArray /\ ~Throws(logLines[lineNo'].content)) =>
       LET Paired(b) == b.type = "tool_result" /\ b.id \in toolUseNames' /\ b.content # <<>>
           Classified(b) == Paired(b) /\ (Rejected(b) \/ Errored(b))
           classified == SelectSeq(logLines[lineNo'].content.blocks, Classified)
       IN /\ Len(NewResultLines) = Len(classified)
          /\ \A k \in 1..Len(classified) : IsLineOf(NewResultLines[k], classified[k])]_vars

\* A bare '[rejected]' line from a block also flagged as error, and an
\* '[error]' line of a text cut to 800 characters.
C22_Witness ==
  /\ rpc = "returned"
  /\ Len(readMessages) = 3
  /\ readMessages[2].lines = <<RejectedLine(<<>>)>>
  /\ logLines[2].content.blocks[1].is_error
  /\ Len(readMessages[3].lines) = 1
  /\ readMessages[3].lines[1].tag = "[error]"
  /\ readMessages[3].lines[1].cut

\* The tool_use identifiers of the assistant entries before position i that
\* the loop did not skip (sidechain, summary, progress, no or other role),
\* up to a block that cannot be read.
InvokedBefore(i) ==
  UNION { { logLines[j].content.blocks[k].id :
              k \in { n \in 1..Len(logLines[j].content.blocks) :
                        /\ logLines[j].content.blocks[n].type = "tool_use"
                        /\ \A p \in 1..n : logLines[j].content.blocks[p].type # "null" } } :
          j \in { n \in 1..(i - 1) :
                    /\ logLines[n].kind = "entry"
                    /\ ~logLines[n].isSidechain
                    /\ logLines[n].type \notin {"summary", "progress"}
                    /\ logLines[n].role = "assistant" } }

\* Whether the entry at position i yields text: text of its own, a line for
\* an invocation other than Skill, or a line for a tool result.
YieldsText(i) ==
  LET line == logLines[i]
  IN \/ line.content.textLen > 0
     \/ /\ line.role = "assistant"
        /\ \E k \in 1..Len(line.content.blocks) :
             line.content.blocks[k].type = "tool_use" /\ line.content.blocks[k].name # "Skill"
     \/ /\ line.role = "user"
        /\ \E k \in 1..Len(line.content.blocks) :
             LET b == line.content.blocks[k]
             IN /\ b.type = "tool_result"
                /\ b.id \in InvokedBefore(i)
                /\ b.content # <<>>
                /\ Rejected(b) \/ Errored(b)

\* The entries that make the message list: they parse (a null among the
\* blocks counts as unparseable), are not sidechain, summary or progress,
\* have role user or assistant and yield text.
Kept(i) ==
  /\ logLines[i].kind = "entry"
  /\ \A k \in 1..Len(logLines[i].content.blocks) : logLines[i].content.blocks[k].type # "null"
  /\ ~logLines[i].isSidechain
  /\ logLines[i].type \notin {"summary", "progress"}
  /\ logLines[i].role \in {"user", "assistant"}
  /\ YieldsText(i)

Stage1Source == IF cmd = "verify" THEN latestReport.results ELSE results

Flagged ==
  { Stage1Source[k].sessionId : k \in { j \in 1..Len(Stage1Source) : Stage1Source[j].flags > 0 } }

\* C27: in verify and pipeline, verifySession is called only for a session
\* whose Stage-1 result holds a candidate; a session without candidates is
\* in no verification report written; and when no session has a candidate
\* Stage 2 never begins and no verification report is written.
C27_Stage2OnlyFlagged ==
  /\ []((cmd \in {"verify", "pipeline"} /\ Stage2Begun) =>
          /\ Flagged # {}
          /\ \A k \in 1..Len(sessionsWithFindings) :
               /\ sessionsWithFindings[k].flags > 0
               /\ sessionsWithFindings[k].sessionId \in Flagged
          /\ \A s \in SessionIds : voutcome[s] # "none" => s \in Flagged
          /\ \A k \in 1..Len(verifyResults) :
               verifyResults[k].sessionId \in Flagged /\ verifyResults[k].verdicts > 0)
  /\ [][verifiedReport' # verifiedReport =>
          /\ Flagged # {}
          /\ \A k \in 1..Len(verifiedReport'.results) :
               verifiedReport'.results[k].sessionId \in Flagged]_vars

\* A verify run over a report of a clean and a flagged session wrote a
\* verification report with the flagged one alone.
C27_Witness ==
  /\ cmd = "verify"
  /\ pc = "done"
  /\ term = "stage2 complete"
  /\ Len(latestReport.results) = 2
  /\ Cardinality(Flagged) = 1
  /\ Len(verifiedReport.results) = 1
  /\ verifiedReport.results[1].sessionId \in Flagged

\* ------------------------------------------------- claims on termination
\* The runs in which every step that can be taken is taken in the end: each
\* file read and each model call returns or fails.
SpecFair == Init /\ [][Next]_vars /\ WF_vars(Next)

\* The Stage-1 or Stage-2 session the loop is at.
Resolving(s) ==
  \/ InStage1Loop /\ toProcess[idx].sessionId = s
  \/ InStage2Loop /\ sessionsWithFindings[idx].sessionId = s

C29_RecordedImpliesReported ==
  \A s \in SessionIds :
    Persisted(fs).processedSessions[s] # NoRecord => s \in reportHistory

\* --------------------------------------------------- scan after scan
\* The scan runs alone, each remembered when it ends: whether it handled
\* every session it selected (no --dry-run, no --limit, no unhandled
\* rejection, at least one session selected, none reported as failed).
RunSummary ==
  IF /\ cmd = "scan" /\ ~opts.dryRun /\ opts.limit = 0 /\ term # "fatal"
     /\ toProcess # <<>>
     /\ \A s \in Selected : outcome[s] \in {"analyzed", "empty"}
  THEN RunMemory(TRUE, \E s \in Selected : outcome[s] = "empty", entries)
  ELSE NoRun

ExitRemembered ==
  /\ pc = "done"
  /\ EndProcess
  /\ prev' = RunSummary

NextRerun ==
  \/ \E S \in SUBSET SessionIds, all \in BOOLEAN, dryRun \in BOOLEAN, limit \in Limits :
       StartScan(S, all, dryRun, limit)
  \/ LoadState
  \/ LoadStateThrows
  \/ ParseSessionReturns
  \/ ParseSessionEmpty
  \/ ParseSessionThrows
  \/ \E n \in 0..MaxFindings : AnalyzeTier1Returns(n)
  \/ AnalyzeTier1Throws
  \/ SaveWriteBegin
  \/ SaveWriteEnd
  \/ SaveWriteThrows
  \/ SaveRename
  \/ SaveRenameThrows
  \/ NoSessionsAnalyzed
  \/ WriteReport
  \/ WriteReportThrows
  \/ ExitRemembered
  \/ Crash
  \/ \E s \in SessionIds : EditLog(s)
  \/ Reset

SpecRerun == Init /\ [][NextRerun]_vars

\* A scan without --all over the entries of the scan that ended before it,
\* which handled all it selected, and past its loadState.
SecondScan ==
  /\ cmd = "scan"
  /\ ~opts.all
  /\ prev.handled
  /\ entries = prev.entries
  /\ pc # "load"
  /\ term # "fatal"

AllAlreadyProcessed ==
  /\ pc = "done"
  /\ term = "all matched sessions already processed"
  /\ toProcess = <<>>
  /\ calls = {}

\* C30 as stated: after a scan without --limit that handled every session it
\* selected without a failure, sessions with an empty conversation text
\* included, a second scan over the same unchanged logs finds every session
\* already processed, makes no model call and ends in 'all matched sessions
\* already processed'.
C30_RerunFindsAllProcessed ==
  SecondScan => AllAlreadyProcessed

\* What the scan gives: the same when the first scan analyzed every session
\* it selected; a session whose conversation text was empty got no record,
\* so after a scan that found one the second scan selects sessions again and
\* does not end in 'all matched sessions already processed'.
RerunAfterAllAnalyzed ==
  /\ (SecondScan /\ ~prev.anyEmpty) => AllAlreadyProcessed
  /\ (SecondScan /\ prev.anyEmpty) =>
       /\ toProcess # <<>>
       /\ term # "all matched sessions already processed"
       /\ \A s \in Selected : ledgerAtStart.processedSessions[s] = NoRecord
                              \/ ledgerAtStart.processedSessions[s].modifiedAt # modified[s]

\* The second scan over two sessions that the first scan analyzed has ended,
\* with nothing to do.
RerunWitness ==
  /\ SecondScan
  /\ ~prev.anyEmpty
  /\ Len(entries) = 2
  /\ AllAlreadyProcessed
  /\ \A s \in SessionIds : HasMatchingRecord(ledgerAtStart, s, modified[s])

====
